---- MODULE Spec2Model ----
(***************************************************************************)
(* Meowtivator: the quest lifecycle of QuestManager.jsx (reserve, release, *)
(* focus, complete, create), the user documents it writes, the append-only *)
(* quest history, and the pure helpers (isQuestDue, calculateNextDueAt,    *)
(* normalizeQuestDoc, calculateXpWithFairness, weeklyStats).               *)
(*                                                                         *)
(* The store is the external document database: three collections, written *)
(* one document at a time.  Every client holds its own last-received       *)
(* snapshot of the collections (onSnapshot) and decides from that snapshot *)
(* alone; a write goes to the store unconditionally.                       *)
(*                                                                         *)
(* Instants are integers: ticks since 2025-01-01T00:00 local time, with    *)
(* TicksPerDay ticks in a calendar day.  A nullable value is a sequence of *)
(* length at most one: Null is <<>>, a present value v is <<v>>.           *)
(***************************************************************************)
EXTENDS Integers, Sequences, FiniteSets, TLC

\* ------------------------------------------------------------------ bounds
\* Ticks in one calendar day (the granularity of the model's clock).
TicksPerDay == 2
\* How far the clock of the store model advances, in ticks.
MaxTime == 1
\* How many button presses the clients make in all, not counting the presses
\* that only close the completion modal.
MaxOps == 4
\* How far the instants of the due-ness model range, in ticks.
MaxDueTime == 5
\* The largest frequencyInterval the due-date functions are applied to.
MaxInterval == 2
\* The largest number of users in the lists the fairness functions are given.
MaxUsers == 2

\* ------------------------------------------------------- nullable values
Null == <<>>
Some(v) == <<v>>
IsSet(v) == v # Null
Val(v) == v[1]

\* ---------------------------------------------------------------- calendar
\* Local calendar arithmetic of the JavaScript Date object, for instants at or
\* after 2025-01-01 (local time zone without daylight-saving shifts).
EpochYear == 2025
\* new Date(2025, 0, 1).getDay(): a Wednesday.
EpochWeekday == 3

IsLeap(y) == (y % 4 = 0 /\ y % 100 # 0) \/ y % 400 = 0

YearLen(y) == IF IsLeap(y) THEN 366 ELSE 365

\* m is the Date month index, 0..11.
DaysInMonth(y, m) ==
    IF m = 1 THEN (IF IsLeap(y) THEN 29 ELSE 28)
    ELSE IF m \in {3, 5, 8, 10} THEN 30 ELSE 31

RECURSIVE DaysBeforeYear(_)
DaysBeforeYear(y) ==
    IF y <= EpochYear THEN 0 ELSE DaysBeforeYear(y - 1) + YearLen(y - 1)

RECURSIVE DaysBeforeMonth(_, _)
DaysBeforeMonth(y, m) ==
    IF m <= 0 THEN 0 ELSE DaysBeforeMonth(y, m - 1) + DaysInMonth(y, m - 1)

\* new Date(y, m, d) as a day number: the month index may exceed 11 and the
\* day may exceed the month's length; both roll over as Date does.
MakeDay(y, m, d) ==
    LET yy == y + (m \div 12)
        mm == m % 12
    IN DaysBeforeYear(yy) + DaysBeforeMonth(yy, mm) + (d - 1)

RECURSIVE DateFrom(_, _, _)
DateFrom(y, m, n) ==
    IF n < DaysInMonth(y, m)
    THEN [year |-> y, month |-> m, date |-> n + 1]
    ELSE IF m = 11 THEN DateFrom(y + 1, 0, n - DaysInMonth(y, m))
    ELSE DateFrom(y, m + 1, n - DaysInMonth(y, m))

DayOf(t) == t \div TicksPerDay
TickOfDay(t) == t % TicksPerDay
\* getFullYear / getMonth / getDate of the instant t.
DateOf(t) == DateFrom(EpochYear, 0, DayOf(t))

\* date.setDate(date.getDate() + n): same time of day, n calendar days on.
SetDatePlus(t, n) == t + n * TicksPerDay

\* setMonth with the day clamped to the last day of the target month.
SetMonthPlusClamped(t, n) ==
    LET d == DateOf(t)
        y == d.year + ((d.month + n) \div 12)
        m == (d.month + n) % 12
        last == DaysInMonth(y, m)
    IN MakeDay(y, m, IF d.date > last THEN last ELSE d.date) * TicksPerDay
         + TickOfDay(t)

\* date.setMonth(date.getMonth() + n): day of month and time of day kept,
\* excess days rolling into the following month.
SetMonthPlus(t, n) ==
    LET d == DateOf(t)
    IN MakeDay(d.year, d.month + n, d.date) * TicksPerDay + TickOfDay(t)

startOfDay(t) == DayOf(t) * TicksPerDay

\* new Date(year, 0, 1).getDay()
Jan1Weekday(y) == (EpochWeekday + DaysBeforeYear(y)) % 7

\* `${year}-W${week}`, as the pair <<year, week>>.
getWeekKey(t) ==
    LET d == DateOf(t)
        pastDaysOfYear == DayOf(t) - DaysBeforeYear(d.year)
    IN <<d.year, (pastDaysOfYear + Jan1Weekday(d.year) + 1) \div 7>>

\* `${year}-${month + 1}`, as the pair <<year, month + 1>>.
getMonthKey(t) == LET d == DateOf(t) IN <<d.year, d.month + 1>>

\* ------------------------------------------------------------ quest helpers
\* difficultyPresets[difficulty]?.xp, Null for an unknown difficulty.
difficultyPresets(difficulty) ==
    IF difficulty = "easy" THEN Some(100)
    ELSE IF difficulty = "medium" THEN Some(250)
    ELSE IF difficulty = "hard" THEN Some(500)
    ELSE Null

\* a || b on nullable values, and a ?? b (no stored value of the model is a
\* falsy non-null one, so the two coincide).
OrElse(a, b) == IF IsSet(a) THEN a ELSE b

\* A quest document is a record of nullable fields; a field the stored
\* document lacks is Null.  The normalized document has the same shape.
normalizeQuestDoc(docData) ==
    LET difficulty == OrElse(docData.difficulty, Some("easy"))
        frequencyType ==
            OrElse(docData.frequencyType,
                   OrElse(IF docData.frequency = Some("once")
                          THEN Some("once")
                          ELSE OrElse(docData.frequency, Some("daily")),
                          Some("daily")))
    IN [docData EXCEPT
          !.difficulty = difficulty,
          !.xp = OrElse(docData.xp,
                        OrElse(difficultyPresets(Val(difficulty)),
                               difficultyPresets("easy"))),
          !.frequencyType = frequencyType,
          !.frequencyInterval = OrElse(docData.frequencyInterval, Some(1)),
          !.isActive = OrElse(docData.isActive, Some(TRUE))]

\* calculateNextDueAt with the daily step as the default of the switch.
calculateNextDueAtDefaultDaily(frequencyType, frequencyInterval, fromDate) ==
    IF frequencyType = "once" THEN fromDate
    ELSE IF frequencyType = "weekly"
         THEN SetDatePlus(fromDate, frequencyInterval * 7)
    ELSE IF frequencyType = "monthly"
         THEN SetMonthPlus(fromDate, frequencyInterval)
    ELSE SetDatePlus(fromDate, frequencyInterval)

calculateNextDueAt(frequencyType, frequencyInterval, fromDate) ==
    IF frequencyType = "once" THEN fromDate
    ELSE IF frequencyType = "daily" THEN SetDatePlus(fromDate, frequencyInterval)
    ELSE IF frequencyType = "weekly"
         THEN SetDatePlus(fromDate, frequencyInterval * 7)
    ELSE IF frequencyType = "monthly"
         THEN SetMonthPlus(fromDate, frequencyInterval)
    ELSE fromDate

\* quest.frequencyType || quest.frequency || 'once'
\* interval * 24 * 60 * 60 * 1000 milliseconds, in ticks.
DaysInTicks(interval) == interval * TicksPerDay

\* getDueDateFromNow with the weeks unit stepping by days.
getDueDateFromNowWeeksAsDays(unit, interval, fromDate) ==
    IF unit = "days" THEN fromDate + DaysInTicks(interval)
    ELSE IF unit = "weeks" THEN fromDate + DaysInTicks(interval)
    ELSE IF unit = "months" THEN SetMonthPlus(fromDate, interval)
    ELSE fromDate

getDueDateFromNow(unit, interval, fromDate) ==
    IF unit = "days" THEN fromDate + DaysInTicks(interval)
    ELSE IF unit = "weeks" THEN fromDate + DaysInTicks(interval * 7)
    ELSE IF unit = "months" THEN SetMonthPlus(fromDate, interval)
    ELSE fromDate

DueFrequencyType(quest) ==
    Val(OrElse(quest.frequencyType, OrElse(quest.frequency, Some("once"))))

\* The fallback with the daily rule comparing instants instead of days.
LegacyDueByInstant(quest, now) ==
    LET lastCompleted == quest.lastCompletedAt
        frequencyType == DueFrequencyType(quest)
    IN IF frequencyType = "once" THEN ~IsSet(lastCompleted)
       ELSE IF frequencyType = "daily"
            THEN IF ~IsSet(lastCompleted) THEN TRUE
                 ELSE now > Val(lastCompleted)
       ELSE IF frequencyType = "weekly"
            THEN IF ~IsSet(lastCompleted) THEN TRUE
                 ELSE getWeekKey(now) # getWeekKey(Val(lastCompleted))
       ELSE IF frequencyType = "monthly"
            THEN IF ~IsSet(lastCompleted) THEN TRUE
                 ELSE getMonthKey(now) # getMonthKey(Val(lastCompleted))
       ELSE TRUE

\* The fallback with an unrecognized frequencyType treated as a one-time quest.
LegacyDueUnknownAsOnce(quest, now) ==
    LET lastCompleted == quest.lastCompletedAt
        frequencyType == DueFrequencyType(quest)
    IN IF frequencyType = "daily"
       THEN IF ~IsSet(lastCompleted) THEN TRUE
            ELSE startOfDay(now) > startOfDay(Val(lastCompleted))
       ELSE IF frequencyType = "weekly"
            THEN IF ~IsSet(lastCompleted) THEN TRUE
                 ELSE getWeekKey(now) # getWeekKey(Val(lastCompleted))
       ELSE IF frequencyType = "monthly"
            THEN IF ~IsSet(lastCompleted) THEN TRUE
                 ELSE getMonthKey(now) # getMonthKey(Val(lastCompleted))
       ELSE ~IsSet(lastCompleted)

\* The fallback of isQuestDue for documents of the old model (no nextDueAt).
LegacyDue(quest, now) ==
    LET lastCompleted == quest.lastCompletedAt
        frequencyType == DueFrequencyType(quest)
    IN IF frequencyType = "once" THEN ~IsSet(lastCompleted)
       ELSE IF frequencyType = "daily"
            THEN IF ~IsSet(lastCompleted) THEN TRUE
                 ELSE startOfDay(now) > startOfDay(Val(lastCompleted))
       ELSE IF frequencyType = "weekly"
            THEN IF ~IsSet(lastCompleted) THEN TRUE
                 ELSE getWeekKey(now) # getWeekKey(Val(lastCompleted))
       ELSE IF frequencyType = "monthly"
            THEN IF ~IsSet(lastCompleted) THEN TRUE
                 ELSE getMonthKey(now) # getMonthKey(Val(lastCompleted))
       ELSE TRUE

\* isQuestDue with the nextDueAt test ahead of the isActive test.
isQuestDueIgnoringRetirement(quest, now) ==
    IF IsSet(quest.nextDueAt) THEN now >= Val(quest.nextDueAt)
    ELSE IF quest.isActive = Some(FALSE) THEN FALSE
    ELSE LegacyDue(quest, now)

\* isQuestDue with a strict comparison against nextDueAt.
isQuestDueStrictlyAfter(quest, now) ==
    IF quest.isActive = Some(FALSE) THEN FALSE
    ELSE IF IsSet(quest.nextDueAt) THEN now > Val(quest.nextDueAt)
    ELSE LegacyDue(quest, now)

\* isQuestDue with a quest due on the day of nextDueAt only.
isQuestDueOnDueDayOnly(quest, now) ==
    IF quest.isActive = Some(FALSE) THEN FALSE
    ELSE IF IsSet(quest.nextDueAt)
         THEN /\ now >= Val(quest.nextDueAt)
              /\ startOfDay(now) = startOfDay(Val(quest.nextDueAt))
    ELSE LegacyDue(quest, now)

isQuestDue(quest, now) ==
    IF quest.isActive = Some(FALSE) THEN FALSE
    ELSE IF IsSet(quest.nextDueAt) THEN now >= Val(quest.nextDueAt)
    ELSE LegacyDue(quest, now)

\* --------------------------------------------------------- fairness helpers
\* x || 0 on a nullable number.
OrZero(x) == IF IsSet(x) THEN Val(x) ELSE 0

\* baseXp * 1.5 with the half dropped instead of rounded up.
RoundOneAndHalfDown(baseXp) == (3 * baseXp) \div 2

\* Math.round(baseXp * 1.5) for a non-negative integer baseXp.
RoundOneAndHalf(baseXp) == (3 * baseXp + 1) \div 2

DefaultFairnessThreshold == 1000

\* calculateXpWithFairness with the bonus granted at a gap equal to the
\* threshold.
calculateXpWithFairnessAtThreshold(targetUserId, baseXp, stats) ==
    IF ~(IsSet(stats.lowest) /\ IsSet(targetUserId))
    THEN [xpAward |-> baseXp, fairnessApplied |-> FALSE]
    ELSE LET lowestUser == Val(stats.lowest)
             gap == stats.highest - OrZero(lowestUser.weekly_xp)
             threshold == IF IsSet(lowestUser.fairness_threshold)
                          THEN Val(lowestUser.fairness_threshold)
                          ELSE DefaultFairnessThreshold
             fairnessApplied ==
                 lowestUser.id = Val(targetUserId) /\ gap >= threshold
         IN [xpAward |-> IF fairnessApplied THEN RoundOneAndHalf(baseXp)
                         ELSE baseXp,
             fairnessApplied |-> fairnessApplied]

calculateXpWithFairness(targetUserId, baseXp, stats) ==
    IF ~(IsSet(stats.lowest) /\ IsSet(targetUserId))
    THEN [xpAward |-> baseXp, fairnessApplied |-> FALSE]
    ELSE LET lowestUser == Val(stats.lowest)
             gap == stats.highest - OrZero(lowestUser.weekly_xp)
             threshold == IF IsSet(lowestUser.fairness_threshold)
                          THEN Val(lowestUser.fairness_threshold)
                          ELSE DefaultFairnessThreshold
             fairnessApplied ==
                 lowestUser.id = Val(targetUserId) /\ gap > threshold
         IN [xpAward |-> IF fairnessApplied THEN RoundOneAndHalf(baseXp)
                         ELSE baseXp,
             fairnessApplied |-> fairnessApplied]

\* The forEach of the weeklyStats memo over users[1..n], in snapshot order.
RECURSIVE WeeklyScan(_, _)
WeeklyScan(userList, n) ==
    IF n = 0 THEN [highest |-> 0, lowest |-> Null]
    ELSE LET acc == WeeklyScan(userList, n - 1)
             u == userList[n]
             weekly == OrZero(u.weekly_xp)
         IN [highest |-> IF weekly > acc.highest THEN weekly ELSE acc.highest,
             lowest |-> IF ~IsSet(acc.lowest) THEN Some(u)
                        ELSE IF weekly < OrZero(Val(acc.lowest).weekly_xp)
                        THEN Some(u) ELSE acc.lowest]

\* The scan with the last user of the lowest weekly_xp kept.
RECURSIVE WeeklyScanLastWins(_, _)
WeeklyScanLastWins(userList, n) ==
    IF n = 0 THEN [highest |-> 0, lowest |-> Null]
    ELSE LET acc == WeeklyScanLastWins(userList, n - 1)
             u == userList[n]
             weekly == OrZero(u.weekly_xp)
         IN [highest |-> IF weekly > acc.highest THEN weekly ELSE acc.highest,
             lowest |-> IF ~IsSet(acc.lowest) THEN Some(u)
                        ELSE IF weekly <= OrZero(Val(acc.lowest).weekly_xp)
                        THEN Some(u) ELSE acc.lowest]

weeklyStatsLastWins(userList) == WeeklyScanLastWins(userList, Len(userList))

weeklyStats(userList) == WeeklyScan(userList, Len(userList))

\* ------------------------------------------------------------------- state
\* The signed-in users; each runs one client (currentUser.uid is the client).
Users == {"A", "B"}
\* snapshot.docs order of the users collection (by document id).
UserOrder == <<"A", "B">>
\* The document ids addDoc can hand out to new quests.
QuestIds == {"q1"}
\* 2025-01-31T00:00, so that the clock can cross a month boundary.
StartNow == 30 * TicksPerDay

\* What the create-quest form and the threshold field are filled with.
FormDifficulties == {"medium"}
FormFrequencyTypes == {"once", "daily"}
FormIntervals == {1}
FairnessInputs == {0, 100}

VARIABLES
    now,               \* the current instant (client and server clocks agree)
    chores,            \* store: [QuestIds -> Null or <<quest document>>]
    users,             \* store: [Users -> Null or <<user document>>]
    quest_history,     \* store: the sequence of history entries, oldest first
    completionWrites,  \* history variable: completion updates applied, per quest
    ops,               \* history variable: handler calls made so far
    snapChores,        \* per client: the chores state (normalized snapshot)
    snapUsers,         \* per client: the users state
    dueQuests,         \* per client: the dueQuests memo (quest ids)
    completionModal,   \* per client: completionModal.choreId, Null when closed
    completionUserId,  \* per client: Null for ''
    pc,                \* per client: where handleConfirmCompletion stands
    pending,           \* per client: what the running completion captured
    ensurePc,          \* per client: where ensureUserDocument stands
    loginPc,           \* per client: where LoginPage's ensureUserDocument stands
    chorePc,           \* per client: where ChoreManager's ensureUserDocument stands
    evalQuest,         \* due-ness model: the quest document under evaluation
    evalNow,           \* due-ness model: the instant of the evaluation
    evalDue,           \* due-ness model: what the client last reported
    calcArgs,          \* due-date model: the arguments of the call
    calcResult,        \* due-date model: the function called and its result
    xpArgs,            \* fairness model: users state, player and base XP
    xpStats,           \* fairness model: the weeklyStats memo, Null before it
    xpResult,          \* fairness model: what calculateXpWithFairness returned
    monthlySyncRef,    \* per client: monthlySyncRef.current, user -> month key
    newQuestForm,      \* per client: the state of the create-quest form
    fmtArg,            \* timer display: the milliseconds formatMs is given
    fmtResult,         \* timer display: the text it returned, Null before
    coerceArg,         \* date coercion: the value coerceDate is given
    coerceResult,      \* date coercion: what the call left, Null before it
    authLoading,       \* per client: useAuth().loading
    currentUser,       \* per client: useAuth().currentUser, Null or the user
    location           \* per client: the router's location, a path

storeVars == <<chores, users, quest_history, completionWrites>>
clientVars == <<snapChores, snapUsers, dueQuests, completionModal,
                completionUserId, pc, pending, ensurePc>>
evalVars == <<evalQuest, evalNow, evalDue>>
calcVars == <<calcArgs, calcResult>>
xpVars == <<xpArgs, xpStats, xpResult>>
syncVars == <<monthlySyncRef>>
formVars == <<newQuestForm>>
routeVars == <<authLoading, currentUser, location>>
ensureVars == <<loginPc, chorePc>>
fmtVars == <<fmtArg, fmtResult>>
coerceVars == <<coerceArg, coerceResult>>
\* The variables of the pure functions.
pureVars == <<evalVars, calcVars, xpVars, fmtVars, coerceVars>>
\* The variables the actions of the store model leave alone.
idleVars == <<pureVars, syncVars, formVars, routeVars, ensureVars>>
\* Everything but the variables of the pure functions.
stillVars == <<now, ops, storeVars, clientVars, syncVars, formVars, routeVars, ensureVars>>
vars == <<now, ops, storeVars, clientVars, idleVars>>

\* A stored quest document with every field null.
EmptyQuest ==
    [difficulty |-> Null, xp |-> Null, frequencyType |-> Null,
     frequency |-> Null, frequencyInterval |-> Null, isActive |-> Null,
     nextDueAt |-> Null, reservedById |-> Null, reservedByName |-> Null,
     lastCompletedAt |-> Null, lastCompletedById |-> Null]

\* A stored user document with every field absent.
EmptyUser ==
    [total_xp |-> Null, weekly_xp |-> Null, star_coins |-> Null,
     fairness_threshold |-> Null, monthly_xp_start |-> Null,
     monthly_start_month |-> Null]

\* setDoc(ref, data, {merge: true}): creates the document when it is missing.
MergeUser(stored, data) ==
    LET base == IF IsSet(stored) THEN Val(stored) ELSE EmptyUser
    IN Some([f \in DOMAIN base |->
               IF f \in DOMAIN data THEN data[f] ELSE base[f]])

\* updateDoc(ref, data) on an existing quest document.
UpdateQuest(stored, data) ==
    Some([f \in DOMAIN Val(stored) |->
            IF f \in DOMAIN data THEN data[f] ELSE Val(stored)[f]])

\* The users state as the list the client iterates: {id: docSnap.id, ...data}.
UserRecord(snap, u) ==
    [id |-> u, total_xp |-> Val(snap[u]).total_xp,
     weekly_xp |-> Val(snap[u]).weekly_xp,
     star_coins |-> Val(snap[u]).star_coins,
     fairness_threshold |-> Val(snap[u]).fairness_threshold,
     monthly_xp_start |-> Val(snap[u]).monthly_xp_start,
     monthly_start_month |-> Val(snap[u]).monthly_start_month]

UserList(snap) ==
    LET ids == SelectSeq(UserOrder, LAMBDA u : IsSet(snap[u]))
    IN [i \in 1 .. Len(ids) |-> UserRecord(snap, ids[i])]

\* The document user creation writes.
InitialUserDoc ==
    [total_xp |-> Some(0), weekly_xp |-> Some(0), star_coins |-> Some(0),
     fairness_threshold |-> Some(DefaultFairnessThreshold),
     monthly_xp_start |-> Some(0),
     monthly_start_month |-> Some(getMonthKey(now))]

\* No due-date function has been called.
InitCalcIdle ==
    /\ calcArgs = [unit |-> "once", interval |-> 1, fromDate |-> 0]
    /\ calcResult = Null

\* No fairness function has been called.
InitXpIdle ==
    /\ xpArgs = [users |-> <<>>, targetUserId |-> Null, baseXp |-> 0]
    /\ xpStats = Null
    /\ xpResult = Null

\* No client has run the monthly sync.
InitSyncIdle == monthlySyncRef = [c \in Users |-> [u \in Users |-> Null]]

\* The create-quest form as useState(initialTaskForm) leaves it (the title and
\* the difficulty are not followed: no edit of the frequency reads them).
initialTaskForm == [frequencyType |-> "daily", frequencyInterval |-> 1]

\* No client has touched its create-quest form.
InitFormIdle == newQuestForm = [c \in Users |-> initialTaskForm]

\* formatMs has not been called.
InitFmtIdle == fmtArg = Null /\ fmtResult = Null

\* coerceDate has not been called.
InitCoerceIdle == coerceArg = [kind |-> "undefined"] /\ coerceResult = Null

\* The ensureUserDocument runs of LoginPage and ChoreManager are over.
InitEnsureIdle ==
    /\ loginPc = [c \in Users |-> "done"]
    /\ chorePc = [c \in Users |-> "done"]

\* Every client is signed in and on the page of its own quests.
InitRouteIdle ==
    /\ authLoading = [c \in Users |-> FALSE]
    /\ currentUser = [c \in Users |-> Some(c)]
    /\ location = [c \in Users |-> <<"users", c, "dashboard">>]

\* Two users have signed in (their documents exist), the clients have just
\* mounted (no snapshot has arrived yet) and no quest has been created.
Init ==
    /\ now = StartNow
    /\ chores = [q \in QuestIds |-> Null]
    /\ users = [u \in Users |-> Some(InitialUserDoc)]
    /\ quest_history = <<>>
    /\ completionWrites = [q \in QuestIds |-> 0]
    /\ ops = 0
    /\ snapChores = [c \in Users |-> [q \in QuestIds |-> Null]]
    /\ snapUsers = [c \in Users |-> [u \in Users |-> Null]]
    /\ dueQuests = [c \in Users |-> {}]
    /\ completionModal = [c \in Users |-> Null]
    /\ completionUserId = [c \in Users |-> Null]
    /\ pc = [c \in Users |-> "idle"]
    /\ pending = [c \in Users |-> Null]
    /\ ensurePc = [c \in Users |-> "done"]
    /\ evalQuest = EmptyQuest
    /\ evalNow = 0
    /\ evalDue = Null
    /\ InitCalcIdle
    /\ InitXpIdle
    /\ InitSyncIdle
    /\ InitFormIdle
    /\ InitFmtIdle
    /\ InitCoerceIdle
    /\ InitRouteIdle
    /\ InitEnsureIdle

\* A counted button press: the model follows the clients through MaxOps of them.
Press == ops < MaxOps /\ ops' = ops + 1

\* ------------------------------------------------------------------ clock
Tick ==
    /\ UNCHANGED ops
    /\ now < StartNow + MaxTime
    /\ now' = now + 1
    /\ UNCHANGED <<storeVars, clientVars, idleVars>>

\* ---------------------------------------------------- ensureUserDocument
\* await getDoc(userRef): the existence the run goes on with.
EnsureUserGet(c) ==
    /\ UNCHANGED ops
    /\ ensurePc[c] = "getDoc"
    /\ ensurePc' = [ensurePc EXCEPT
                      ![c] = IF IsSet(users[c]) THEN "done" ELSE "setDoc"]
    /\ UNCHANGED <<now, storeVars, idleVars, snapChores, snapUsers, dueQuests,
                   completionModal, completionUserId, pc, pending>>

\* await setDoc(userRef, {...}) without merge: the whole document is replaced.
EnsureUserSet(c) ==
    /\ UNCHANGED ops
    /\ ensurePc[c] = "setDoc"
    /\ users' = [users EXCEPT ![c] = Some(InitialUserDoc)]
    /\ ensurePc' = [ensurePc EXCEPT ![c] = "done"]
    /\ UNCHANGED <<now, chores, quest_history, completionWrites, idleVars,
                   snapChores, snapUsers, dueQuests, completionModal,
                   completionUserId, pc, pending>>

\* ------------------------------------------------------------ subscriptions
\* onSnapshot(usersRef, ...): setUsers(u).
UsersSnapshot(c) ==
    /\ UNCHANGED ops
    /\ snapUsers[c] # users
    /\ snapUsers' = [snapUsers EXCEPT ![c] = users]
    /\ UNCHANGED <<now, storeVars, idleVars, snapChores, dueQuests,
                   completionModal, completionUserId, pc, pending, ensurePc>>

NormalizedChores ==
    [q \in QuestIds |->
       IF IsSet(chores[q]) THEN Some(normalizeQuestDoc(Val(chores[q])))
       ELSE Null]

\* The dueQuests memo: recomputed when the chores state changes, with the
\* instant of that render.
DueMemo(questDocs, at) ==
    {q \in QuestIds : IsSet(questDocs[q]) /\ isQuestDue(Val(questDocs[q]), at)}

\* onSnapshot(choresRef, ...): setChores(data), then the memo.
ChoresSnapshot(c) ==
    /\ UNCHANGED ops
    /\ snapChores[c] # NormalizedChores
    /\ snapChores' = [snapChores EXCEPT ![c] = NormalizedChores]
    /\ dueQuests' = [dueQuests EXCEPT ![c] = DueMemo(NormalizedChores, now)]
    /\ UNCHANGED <<now, storeVars, idleVars, snapUsers, completionModal,
                   completionUserId, pc, pending, ensurePc>>

\* ----------------------------------------------------------- quest actions
\* The lowest unused document id stands for addDoc's fresh id.
FreeQuestIds == {q \in QuestIds : ~IsSet(chores[q])}

\* handleCreateQuest with the form holding (difficulty, frequencyType,
\* frequencyInterval) and a non-empty title; serverTimestamp() is now.
handleCreateQuest(c, difficulty, frequencyType, frequencyInterval) ==
    /\ Press
    /\ completionModal[c] = Null
    /\ FreeQuestIds # {}
    /\ LET id == CHOOSE q \in FreeQuestIds : TRUE
       IN chores' = [chores EXCEPT ![id] = Some(
              [EmptyQuest EXCEPT
                 !.difficulty = Some(difficulty),
                 !.xp = difficultyPresets(difficulty),
                 !.frequencyType = Some(frequencyType),
                 !.frequencyInterval = Some(frequencyInterval),
                 !.isActive = Some(TRUE),
                 !.nextDueAt = Some(now)])]
    /\ UNCHANGED <<now, users, quest_history, completionWrites,
                   clientVars, idleVars>>

\* renderQuestCard: reservedByOther disables the three buttons of a card.
reservedByOther(quest, c) ==
    IsSet(quest.reservedById) /\ quest.reservedById # Some(c)

\* A card with actions is rendered for the quests of the dueQuests memo
\* (reservedQuests and availableQuests); the completion modal covers the page.
CardShown(c, q) ==
    /\ pc[c] = "idle"
    /\ completionModal[c] = Null
    /\ q \in dueQuests[c]
    /\ IsSet(snapChores[c][q])
    /\ Val(snapChores[c][q]).isActive # Some(FALSE)

\* The guards of toggleReservation and handleFocusQuest, on the client's quest.
MayToggle(quest, c, at) ==
    /\ isQuestDue(quest, at)
    /\ ~(IsSet(quest.reservedById) /\ quest.reservedById # Some(c))

\* The data toggleReservation writes.
ReservationData(quest, c) ==
    LET alreadyReserved == quest.reservedById = Some(c)
    IN [reservedById |-> IF alreadyReserved THEN Null ELSE Some(c),
        reservedByName |-> IF alreadyReserved THEN Null ELSE Some(c)]

toggleReservation(c, q) ==
    /\ Press
    /\ CardShown(c, q)
    /\ ~reservedByOther(Val(snapChores[c][q]), c)
    /\ MayToggle(Val(snapChores[c][q]), c, now)
    /\ chores' = [chores EXCEPT
                    ![q] = UpdateQuest(chores[q],
                                       ReservationData(Val(snapChores[c][q]), c))]
    /\ UNCHANGED <<now, users, quest_history, completionWrites,
                   clientVars, idleVars>>

\* handleFocusQuest reserves an unreserved quest through toggleReservation and
\* then only switches the page (the page and the selected quest are not part of
\* the model: no store write reads them).
handleFocusQuest(c, q) ==
    /\ Press
    /\ CardShown(c, q)
    /\ ~reservedByOther(Val(snapChores[c][q]), c)
    /\ MayToggle(Val(snapChores[c][q]), c, now)
    /\ ~IsSet(Val(snapChores[c][q]).reservedById)
    /\ chores' = [chores EXCEPT
                    ![q] = UpdateQuest(chores[q],
                                       ReservationData(Val(snapChores[c][q]), c))]
    /\ UNCHANGED <<now, users, quest_history, completionWrites,
                   clientVars, idleVars>>

\* The Complete button of a quest card.
openCompletion(c, q) ==
    /\ Press
    /\ CardShown(c, q)
    /\ ~reservedByOther(Val(snapChores[c][q]), c)
    /\ completionUserId' = [completionUserId EXCEPT ![c] = Some(c)]
    /\ completionModal' = [completionModal EXCEPT ![c] = Some(q)]
    /\ UNCHANGED <<now, storeVars, idleVars, snapChores, snapUsers, dueQuests,
                   pc, pending, ensurePc>>

\* The player select of the completion modal: '' or a user of the users state.
selectCompletionUser(c, choice) ==
    /\ Press
    /\ pc[c] = "idle"
    /\ IsSet(completionModal[c])
    /\ choice # completionUserId[c]
    /\ IF IsSet(choice) THEN IsSet(snapUsers[c][Val(choice)]) ELSE TRUE
    /\ completionUserId' = [completionUserId EXCEPT ![c] = choice]
    /\ UNCHANGED <<now, storeVars, idleVars, snapChores, snapUsers, dueQuests,
                   completionModal, pc, pending, ensurePc>>

\* The Cancel button of the completion modal.
cancelCompletion(c) ==
    /\ UNCHANGED ops
    /\ pc[c] = "idle"
    /\ IsSet(completionModal[c])
    /\ completionModal' = [completionModal EXCEPT ![c] = Null]
    /\ UNCHANGED <<now, storeVars, idleVars, snapChores, snapUsers, dueQuests,
                   completionUserId, pc, pending, ensurePc>>

\* ------------------------------------------------ handleConfirmCompletion
\* Math.floor(newTotal / 10)
StarCoins(newTotal) == newTotal \div 10

\* updateUserProgress with star_coins taken from the total before the award.
UserProgressDataStaleCoins(snap, userId, xpDelta) ==
    LET baseTotal == IF IsSet(snap[userId])
                     THEN OrZero(Val(snap[userId]).total_xp) ELSE 0
        baseWeekly == IF IsSet(snap[userId])
                      THEN OrZero(Val(snap[userId]).weekly_xp) ELSE 0
    IN [total_xp |-> Some(baseTotal + xpDelta),
        weekly_xp |-> Some(baseWeekly + xpDelta),
        star_coins |-> Some(StarCoins(baseTotal))]

\* The data updateUserProgress writes, from the client's users state.
UserProgressData(snap, userId, xpDelta) ==
    LET baseTotal == IF IsSet(snap[userId])
                     THEN OrZero(Val(snap[userId]).total_xp) ELSE 0
        baseWeekly == IF IsSet(snap[userId])
                      THEN OrZero(Val(snap[userId]).weekly_xp) ELSE 0
        newTotal == baseTotal + xpDelta
    IN [total_xp |-> Some(newTotal),
        weekly_xp |-> Some(baseWeekly + xpDelta),
        star_coins |-> Some(StarCoins(newTotal))]

\* The quest_history document of a completion.
HistoryEntry(questId, quest, userId, xpAward, at) ==
    [questId |-> questId, completedById |-> userId, completedAt |-> at,
     xpAwarded |-> xpAward, reservedById |-> quest.reservedById,
     reservedByName |-> quest.reservedByName]

\* The completion update with a one-time quest rescheduled like any other.
CompletionDataNoRetirement(quest, userId, at) ==
    [reservedById |-> Null, reservedByName |-> Null,
     lastCompletedAt |-> Some(at), lastCompletedById |-> Some(userId),
     nextDueAt |-> Some(calculateNextDueAt(DueFrequencyType(quest),
                            Val(OrElse(quest.frequencyInterval, Some(1))), at))]

\* The completion update without the next due date of a recurring quest.
CompletionDataNoReschedule(quest, userId, at) ==
    LET updateData == [reservedById |-> Null, reservedByName |-> Null,
                       lastCompletedAt |-> Some(at),
                       lastCompletedById |-> Some(userId)]
    IN IF DueFrequencyType(quest) = "once"
       THEN updateData @@ [isActive |-> Some(FALSE)]
       ELSE updateData

\* updateData of the quest: retirement for a one-time quest, the next due
\* date otherwise.
CompletionData(quest, userId, at) ==
    LET frequencyType == DueFrequencyType(quest)
        frequencyInterval == Val(OrElse(quest.frequencyInterval, Some(1)))
        updateData == [reservedById |-> Null, reservedByName |-> Null,
                       lastCompletedAt |-> Some(at),
                       lastCompletedById |-> Some(userId)]
    IN IF frequencyType = "once"
       THEN updateData @@ [isActive |-> Some(FALSE)]
       ELSE updateData @@
            [nextDueAt |->
               Some(calculateNextDueAt(frequencyType, frequencyInterval, at))]

\* The finally block: the modal closes and the form state is reset.
Finally(c) ==
    /\ completionModal' = [completionModal EXCEPT ![c] = Null]
    /\ completionUserId' = [completionUserId EXCEPT ![c] = Null]
    /\ pc' = [pc EXCEPT ![c] = "idle"]
    /\ pending' = [pending EXCEPT ![c] = Null]

\* Apply XP on a quest that is not due in the client's chores state.
ConfirmNotDue(c) ==
    /\ UNCHANGED ops
    /\ pc[c] = "idle"
    /\ IsSet(completionModal[c]) /\ IsSet(completionUserId[c])
    /\ IsSet(snapChores[c][Val(completionModal[c])])
    /\ ~isQuestDue(Val(snapChores[c][Val(completionModal[c])]), now)
    /\ completionModal' = [completionModal EXCEPT ![c] = Null]
    /\ UNCHANGED <<now, storeVars, idleVars, snapChores, snapUsers, dueQuests,
                   completionUserId, pc, pending, ensurePc>>

\* Apply XP without the isQuestDue guard.
ConfirmStartNoDueCheck(c, ok) ==
    /\ Press
    /\ pc[c] = "idle"
    /\ IsSet(completionModal[c]) /\ IsSet(completionUserId[c])
    /\ IsSet(snapChores[c][Val(completionModal[c])])
    /\ LET questId == Val(completionModal[c])
           quest == Val(snapChores[c][questId])
           userId == Val(completionUserId[c])
           award == calculateXpWithFairness(completionUserId[c], OrZero(quest.xp),
                                            weeklyStats(UserList(snapUsers[c])))
       IN IF ok
          THEN /\ users' = [users EXCEPT ![userId] =
                     MergeUser(users[userId],
                               UserProgressData(snapUsers[c], userId,
                                                award.xpAward))]
               /\ pc' = [pc EXCEPT ![c] = "history"]
               /\ pending' = [pending EXCEPT ![c] =
                     Some([questId |-> questId, quest |-> quest,
                           userId |-> userId, xpAward |-> award.xpAward])]
               /\ UNCHANGED <<completionModal, completionUserId>>
          ELSE /\ Finally(c)
               /\ UNCHANGED users
    /\ UNCHANGED <<now, chores, quest_history, completionWrites, idleVars,
                   snapChores, snapUsers, dueQuests, ensurePc>>

\* Apply XP: the guards, the award, and the first awaited write
\* (updateUserProgress), which succeeds (ok) or throws.
ConfirmStart(c, ok) ==
    /\ Press
    /\ pc[c] = "idle"
    /\ IsSet(completionModal[c]) /\ IsSet(completionUserId[c])
    /\ IsSet(snapChores[c][Val(completionModal[c])])
    /\ LET questId == Val(completionModal[c])
           quest == Val(snapChores[c][questId])
           userId == Val(completionUserId[c])
           award == calculateXpWithFairness(completionUserId[c], OrZero(quest.xp),
                                            weeklyStats(UserList(snapUsers[c])))
       IN /\ isQuestDue(quest, now)
          /\ IF ok
             THEN /\ users' = [users EXCEPT ![userId] =
                        MergeUser(users[userId],
                                  UserProgressData(snapUsers[c], userId,
                                                   award.xpAward))]
                  /\ pc' = [pc EXCEPT ![c] = "history"]
                  /\ pending' = [pending EXCEPT ![c] =
                        Some([questId |-> questId, quest |-> quest,
                              userId |-> userId, xpAward |-> award.xpAward])]
                  /\ UNCHANGED <<completionModal, completionUserId>>
             ELSE /\ Finally(c)
                  /\ UNCHANGED users
    /\ UNCHANGED <<now, chores, quest_history, completionWrites, idleVars,
                   snapChores, snapUsers, dueQuests, ensurePc>>

\* The second awaited write: addDoc to quest_history.
ConfirmHistory(c, ok) ==
    /\ UNCHANGED ops
    /\ pc[c] = "history"
    /\ LET p == Val(pending[c])
       IN IF ok
          THEN /\ quest_history' = Append(quest_history,
                      HistoryEntry(p.questId, p.quest, p.userId, p.xpAward, now))
               /\ pc' = [pc EXCEPT ![c] = "quest"]
               /\ UNCHANGED <<completionModal, completionUserId, pending>>
          ELSE /\ Finally(c)
               /\ UNCHANGED quest_history
    /\ UNCHANGED <<now, chores, users, completionWrites, idleVars,
                   snapChores, snapUsers, dueQuests, ensurePc>>

\* The third write with a failed quest update compensated by deleting the
\* history entry the run has just added.
ConfirmQuestUndoingHistory(c, ok) ==
    /\ UNCHANGED ops
    /\ pc[c] = "quest"
    /\ LET p == Val(pending[c])
       IN IF ok
          THEN /\ chores' = [chores EXCEPT ![p.questId] =
                      UpdateQuest(chores[p.questId],
                                  CompletionData(p.quest, p.userId, now))]
               /\ completionWrites' =
                      [completionWrites EXCEPT ![p.questId] = @ + 1]
               /\ UNCHANGED quest_history
          ELSE /\ quest_history' = SubSeq(quest_history, 1, Len(quest_history) - 1)
               /\ UNCHANGED <<chores, completionWrites>>
    /\ Finally(c)
    /\ UNCHANGED <<now, users, idleVars,
                   snapChores, snapUsers, dueQuests, ensurePc>>

\* The third awaited write: updateDoc of the quest, then the finally block.
ConfirmQuest(c, ok) ==
    /\ UNCHANGED ops
    /\ pc[c] = "quest"
    /\ LET p == Val(pending[c])
       IN IF ok
          THEN /\ chores' = [chores EXCEPT ![p.questId] =
                      UpdateQuest(chores[p.questId],
                                  CompletionData(p.quest, p.userId, now))]
               /\ completionWrites' =
                      [completionWrites EXCEPT ![p.questId] = @ + 1]
          ELSE UNCHANGED <<chores, completionWrites>>
    /\ Finally(c)
    /\ UNCHANGED <<now, users, quest_history, idleVars,
                   snapChores, snapUsers, dueQuests, ensurePc>>

\* ---------------------------------------------------------- settings saves
\* Number(fairnessInput) || 1000
FairnessValue(input) == IF input = 0 THEN DefaultFairnessThreshold ELSE input

handleFairnessSave(c, input) ==
    /\ Press
    /\ users' = [users EXCEPT ![c] =
           MergeUser(users[c], [fairness_threshold |-> Some(FairnessValue(input))])]
    /\ users' # users
    /\ UNCHANGED <<now, chores, quest_history, completionWrites,
                   clientVars, idleVars>>

\* ------------------------------------------------------------ specification
Next ==
    \/ Tick
    \/ \E c \in Users : UsersSnapshot(c)
    \/ \E c \in Users : ChoresSnapshot(c)
    \/ \E c \in Users, d \in FormDifficulties, f \in FormFrequencyTypes,
          i \in FormIntervals : handleCreateQuest(c, d, f, i)
    \/ \E c \in Users, q \in QuestIds : toggleReservation(c, q)
    \/ \E c \in Users, q \in QuestIds : handleFocusQuest(c, q)
    \/ \E c \in Users, q \in QuestIds : openCompletion(c, q)
    \/ \E c \in Users, u \in {Null} \cup {Some(x) : x \in Users} :
          selectCompletionUser(c, u)
    \/ \E c \in Users : cancelCompletion(c)
    \/ \E c \in Users : ConfirmNotDue(c)
    \/ \E c \in Users, ok \in BOOLEAN : ConfirmStart(c, ok)
    \/ \E c \in Users, ok \in BOOLEAN : ConfirmHistory(c, ok)
    \/ \E c \in Users, ok \in BOOLEAN : ConfirmQuest(c, ok)
    \/ \E c \in Users, x \in FairnessInputs : handleFairnessSave(c, x)

Spec == Init /\ [][Next]_vars

\* ------------------------------------------------ the user documents alone
\* A first sign-in: no user document exists yet and both clients are at the
\* getDoc of ensureUserDocument, while a quest one of them has created is due
\* and has reached both clients.
SeedQuest(frequencyType) ==
    [EmptyQuest EXCEPT
       !.difficulty = Some("medium"),
       !.xp = difficultyPresets("medium"),
       !.frequencyType = Some(frequencyType),
       !.frequencyInterval = Some(1),
       !.isActive = Some(TRUE),
       !.nextDueAt = Some(StartNow)]

InitUsers ==
    /\ now = StartNow
    /\ \E f \in FormFrequencyTypes :
          /\ chores = [q \in QuestIds |-> Some(SeedQuest(f))]
          /\ snapChores = [c \in Users |-> [q \in QuestIds |-> Some(SeedQuest(f))]]
    /\ users = [u \in Users |-> Null]
    /\ quest_history = <<>>
    /\ completionWrites = [q \in QuestIds |-> 0]
    /\ ops = 1
    /\ snapUsers = [c \in Users |-> [u \in Users |-> Null]]
    /\ dueQuests = [c \in Users |-> QuestIds]
    /\ completionModal = [c \in Users |-> Null]
    /\ completionUserId = [c \in Users |-> Null]
    /\ pc = [c \in Users |-> "idle"]
    /\ pending = [c \in Users |-> Null]
    /\ ensurePc = [c \in Users |-> "getDoc"]
    /\ evalQuest = EmptyQuest
    /\ evalNow = 0
    /\ evalDue = Null
    /\ InitCalcIdle
    /\ InitXpIdle
    /\ InitSyncIdle
    /\ InitFormIdle
    /\ InitFmtIdle
    /\ InitCoerceIdle
    /\ InitRouteIdle
    /\ InitEnsureIdle

\* Every operation that writes a user document, and what it takes to get to
\* one: the completion modal and the subscriptions.
NextUsers ==
    \/ \E c \in Users : EnsureUserGet(c)
    \/ \E c \in Users : EnsureUserSet(c)
    \/ \E c \in Users : UsersSnapshot(c)
    \/ \E c \in Users : ChoresSnapshot(c)
    \/ \E c \in Users, q \in QuestIds : openCompletion(c, q)
    \/ \E c \in Users, u \in {Null} \cup {Some(x) : x \in Users} :
          selectCompletionUser(c, u)
    \/ \E c \in Users, ok \in BOOLEAN : ConfirmStart(c, ok)
    \/ \E c \in Users, ok \in BOOLEAN : ConfirmHistory(c, ok)
    \/ \E c \in Users, ok \in BOOLEAN : ConfirmQuest(c, ok)
    \/ \E c \in Users, x \in FairnessInputs : handleFairnessSave(c, x)

SpecUsers == InitUsers /\ [][NextUsers]_vars

\* --------------------------------------------------------- due-ness alone
\* The instants of the due-ness model: 2025-01-31 and the days after it, so
\* that a new day, a new week and a new month all begin within them.
EvalTimes == StartNow .. StartNow + MaxDueTime
NullableTimes == {Null} \cup {Some(t) : t \in EvalTimes}

\* The stored quest documents the due-ness model evaluates: current ones and
\* legacy ones (no nextDueAt, no isActive, the deprecated frequency field).
RawQuests ==
    {[EmptyQuest EXCEPT
        !.frequencyType = ft, !.frequency = fr, !.isActive = ia,
        !.nextDueAt = nd, !.lastCompletedAt = lc] :
     ft \in {Null, Some("once"), Some("daily"), Some("weekly"),
             Some("monthly"), Some("yearly")},
     fr \in {Null, Some("once"), Some("weekly")},
     ia \in {Null, Some(TRUE), Some(FALSE)},
     nd \in NullableTimes,
     lc \in NullableTimes}

InitDue ==
    /\ now = StartNow
    /\ chores = [q \in QuestIds |-> Null]
    /\ users = [u \in Users |-> Some(InitialUserDoc)]
    /\ quest_history = <<>>
    /\ completionWrites = [q \in QuestIds |-> 0]
    /\ ops = 0
    /\ snapChores = [c \in Users |-> [q \in QuestIds |-> Null]]
    /\ snapUsers = [c \in Users |-> [u \in Users |-> Null]]
    /\ dueQuests = [c \in Users |-> {}]
    /\ completionModal = [c \in Users |-> Null]
    /\ completionUserId = [c \in Users |-> Null]
    /\ pc = [c \in Users |-> "idle"]
    /\ pending = [c \in Users |-> Null]
    /\ ensurePc = [c \in Users |-> "done"]
    /\ evalQuest \in RawQuests
    /\ evalNow \in EvalTimes
    /\ evalDue = Null
    /\ InitCalcIdle
    /\ InitXpIdle
    /\ InitSyncIdle
    /\ InitFormIdle
    /\ InitFmtIdle
    /\ InitCoerceIdle
    /\ InitRouteIdle
    /\ InitEnsureIdle

mainVars == <<now, ops, storeVars, clientVars, syncVars, formVars, fmtVars,
             coerceVars, routeVars, ensureVars>>
\* What the due-ness model leaves alone.
notEvalVars == <<mainVars, calcVars, xpVars>>

\* What an evaluation leaves behind: the document, the instant, the answer.
Report(quest, at, client, due) ==
    Some([quest |-> quest, at |-> at, client |-> client, due |-> due])

\* isQuestDue(quest, now) on the stored document as it is.
EvalIsQuestDue ==
    /\ evalDue' = Report(evalQuest, evalNow, FALSE, isQuestDue(evalQuest, evalNow))
    /\ UNCHANGED <<notEvalVars, evalQuest, evalNow>>

\* What the client reports: the chores subscription normalizes the document
\* and the dueQuests memo filters it with isQuestDue.
EvalClientDue ==
    /\ evalDue' = Report(evalQuest, evalNow, TRUE,
                         isQuestDue(normalizeQuestDoc(evalQuest), evalNow))
    /\ UNCHANGED <<notEvalVars, evalQuest, evalNow>>

\* Time passes; the last report is not recomputed.
EvalTick ==
    /\ evalNow < StartNow + MaxDueTime
    /\ evalNow' = evalNow + 1
    /\ UNCHANGED <<notEvalVars, evalQuest, evalDue>>

\* A write to the quest: the completion update of handleConfirmCompletion, from
\* the client's (normalized) quest.
EvalComplete ==
    /\ ~IsSet(evalQuest.lastCompletedById)
    /\ isQuestDue(normalizeQuestDoc(evalQuest), evalNow)
    /\ evalQuest' = Val(UpdateQuest(Some(evalQuest),
                        CompletionData(normalizeQuestDoc(evalQuest), "A", evalNow)))
    /\ UNCHANGED <<notEvalVars, evalNow, evalDue>>

NextDue ==
    \/ EvalIsQuestDue
    \/ EvalClientDue
    \/ EvalTick
    \/ EvalComplete

SpecDue == InitDue /\ [][NextDue]_vars


\* ------------------------------------------------------- due dates alone
\* The unit names of calculateNextDueAt and of getDueDateFromNow, and one
\* neither function knows.
CalcUnits ==
    {"once", "daily", "weekly", "monthly", "days", "weeks", "months", "yearly"}

\* 2025-01-01 (the date of the tests), 2025-01-28, 2025-01-31 and
\* 2025-02-28, as days since 2025-01-01.
CalcDays == {0, 27, 30, 58}

CalcFromDates ==
    {d * TicksPerDay + k : d \in CalcDays, k \in 0 .. TicksPerDay - 1}

\* The store model at rest, as the specifications of the pure functions
\* leave it.
InitStoreIdle ==
    /\ now = StartNow
    /\ chores = [q \in QuestIds |-> Null]
    /\ users = [u \in Users |-> Some(InitialUserDoc)]
    /\ quest_history = <<>>
    /\ completionWrites = [q \in QuestIds |-> 0]
    /\ ops = 0
    /\ snapChores = [c \in Users |-> [q \in QuestIds |-> Null]]
    /\ snapUsers = [c \in Users |-> [u \in Users |-> Null]]
    /\ dueQuests = [c \in Users |-> {}]
    /\ completionModal = [c \in Users |-> Null]
    /\ completionUserId = [c \in Users |-> Null]
    /\ pc = [c \in Users |-> "idle"]
    /\ pending = [c \in Users |-> Null]
    /\ ensurePc = [c \in Users |-> "done"]

InitDates ==
    /\ InitStoreIdle
    /\ evalQuest = EmptyQuest
    /\ evalNow = 0
    /\ evalDue = Null
    /\ calcArgs \in [unit : CalcUnits, interval : 1 .. MaxInterval,
                      fromDate : CalcFromDates]
    /\ calcResult = Null
    /\ InitXpIdle
    /\ InitSyncIdle
    /\ InitFormIdle
    /\ InitFmtIdle
    /\ InitCoerceIdle
    /\ InitRouteIdle
    /\ InitEnsureIdle

\* What the due-date model leaves alone.
notCalcVars == <<mainVars, evalVars, xpVars>>

\* What a call leaves behind: the function and the instant it returned.
CalcReport(fn, value) == Some([fn |-> fn, value |-> value])

ApplyCalculateNextDueAt ==
    /\ calcResult' = CalcReport("calculateNextDueAt",
           calculateNextDueAt(calcArgs.unit, calcArgs.interval,
                              calcArgs.fromDate))
    /\ UNCHANGED <<notCalcVars, calcArgs>>

ApplyGetDueDateFromNow ==
    /\ calcResult' = CalcReport("getDueDateFromNow",
           getDueDateFromNow(calcArgs.unit, calcArgs.interval,
                             calcArgs.fromDate))
    /\ UNCHANGED <<notCalcVars, calcArgs>>

NextDates ==
    \/ ApplyCalculateNextDueAt
    \/ ApplyGetDueDateFromNow

SpecDates == InitDates /\ [][NextDates]_vars

\* --------------------------------------------------------- fairness alone
\* The users state the fairness functions run on: up to MaxUsers users in
\* snapshot order, the id of a user being its place in the list.  The
\* weekly_xp values put the gap below, at and above the default threshold
\* and a threshold of 1.
XpWeekly == {Null, Some(0), Some(1000), Some(1001)}
XpThresholds == {Null, Some(1)}

RECURSIVE XpUserLists(_)
XpUserLists(n) ==
    IF n = 0 THEN {<<>>}
    ELSE XpUserLists(n - 1) \cup
         {Append(l, [id |-> n, weekly_xp |-> w, fairness_threshold |-> t]) :
            l \in {x \in XpUserLists(n - 1) : Len(x) = n - 1},
            w \in XpWeekly, t \in XpThresholds}

\* completionUserId: '' or one of the users.
XpTargets == {Null} \cup {Some(i) : i \in 1 .. MaxUsers}

\* quest.xp || 0: the amounts of the claim's examples.
BaseXps == {0, 1, 3, 100}

InitFairness ==
    /\ InitStoreIdle
    /\ evalQuest = EmptyQuest
    /\ evalNow = 0
    /\ evalDue = Null
    /\ InitCalcIdle
    /\ xpArgs \in [users : XpUserLists(MaxUsers), targetUserId : XpTargets,
                    baseXp : BaseXps]
    /\ xpStats = Null
    /\ xpResult = Null
    /\ InitSyncIdle
    /\ InitFormIdle
    /\ InitFmtIdle
    /\ InitCoerceIdle
    /\ InitRouteIdle
    /\ InitEnsureIdle

\* What the fairness model leaves alone.
notXpVars == <<mainVars, evalVars, calcVars>>

\* The weeklyStats memo of the users state.
ComputeWeeklyStats ==
    /\ ~IsSet(xpStats)
    /\ xpStats' = Some(weeklyStats(xpArgs.users))
    /\ UNCHANGED <<notXpVars, xpArgs, xpResult>>

\* handleConfirmCompletion's call of calculateXpWithFairness with the memo.
ApplyFairness ==
    /\ IsSet(xpStats)
    /\ xpResult' = Some(calculateXpWithFairness(xpArgs.targetUserId,
                                               xpArgs.baseXp, Val(xpStats)))
    /\ UNCHANGED <<notXpVars, xpArgs, xpStats>>

NextFairness ==
    \/ ComputeWeeklyStats
    \/ ApplyFairness

SpecFairness == InitFairness /\ [][NextFairness]_vars

\* ------------------------------------------------- the monthly baseline
\* Midnight of 2025-02-01: the clock of the monthly model runs from
\* 2025-01-31 into the next month.
MonthlyHorizon == StartNow + TicksPerDay

\* A user document as completions worth xp in all have left it.
UserWithXp(xp) ==
    [InitialUserDoc EXCEPT !.total_xp = Some(xp), !.weekly_xp = Some(xp),
                           !.star_coins = Some(StarCoins(xp))]

\* Both users were created this month (January) and have earned the XP of no
\* or one medium quest since; the clients have just mounted.
InitMonthly ==
    /\ now = StartNow
    /\ chores = [q \in QuestIds |-> Null]
    /\ users \in [Users -> {Some(UserWithXp(xp)) :
                               xp \in {0, Val(difficultyPresets("medium"))}}]
    /\ quest_history = <<>>
    /\ completionWrites = [q \in QuestIds |-> 0]
    /\ ops = 0
    /\ snapChores = [c \in Users |-> [q \in QuestIds |-> Null]]
    /\ snapUsers = [c \in Users |-> [u \in Users |-> Null]]
    /\ dueQuests = [c \in Users |-> {}]
    /\ completionModal = [c \in Users |-> Null]
    /\ completionUserId = [c \in Users |-> Null]
    /\ pc = [c \in Users |-> "idle"]
    /\ pending = [c \in Users |-> Null]
    /\ ensurePc = [c \in Users |-> "done"]
    /\ evalQuest = EmptyQuest
    /\ evalNow = 0
    /\ evalDue = Null
    /\ InitCalcIdle
    /\ InitXpIdle
    /\ InitSyncIdle
    /\ InitFormIdle
    /\ InitFmtIdle
    /\ InitCoerceIdle
    /\ InitRouteIdle
    /\ InitEnsureIdle

\* Time passes, into the next month.
MonthTick ==
    /\ now < MonthlyHorizon
    /\ now' = now + 1
    /\ UNCHANGED <<ops, storeVars, clientVars, idleVars>>

\* The data the monthly sync writes for a user of the users state.
MonthlySyncData(user, monthKey) ==
    [monthly_xp_start |-> Some(OrZero(user.total_xp)),
     monthly_start_month |-> Some(monthKey)]

\* onSnapshot(usersRef, ...) delivers the users collection, setUsers(u), and
\* the effect that depends on users runs: for each user the ref does not hold
\* the current month key for, updateDoc of the baseline when the user's
\* monthly_start_month differs from the key, and the ref takes the key.  (The
\* documents exist, where updateDoc and a merging setDoc agree.)
UsersSnapshotMonthlySync(c) ==
    /\ snapUsers[c] # users
    /\ snapUsers' = [snapUsers EXCEPT ![c] = users]
    /\ LET monthKey == getMonthKey(now)
           visited == {u \in Users : /\ IsSet(users[u])
                                     /\ monthlySyncRef[c][u] # Some(monthKey)}
           written == {u \in visited :
                         Val(users[u]).monthly_start_month # Some(monthKey)}
       IN /\ users' = [u \in Users |->
                         IF u \in written
                         THEN MergeUser(users[u],
                                        MonthlySyncData(Val(users[u]), monthKey))
                         ELSE users[u]]
          /\ monthlySyncRef' = [monthlySyncRef EXCEPT ![c] =
                 [u \in Users |-> IF u \in visited THEN Some(monthKey)
                                  ELSE monthlySyncRef[c][u]]]
    /\ UNCHANGED <<now, ops, chores, quest_history, completionWrites,
                   snapChores, dueQuests, completionModal, completionUserId,
                   pc, pending, ensurePc, pureVars, formVars, routeVars, ensureVars>>

\* The threshold a user may save once during the run.  (No store state comes
\* back, so a client whose users state equals the store has been delivered
\* every snapshot.)
MonthlyFairnessInputs == {100}

NextMonthly ==
    \/ MonthTick
    \/ \E c \in Users : UsersSnapshotMonthlySync(c)
    \/ \E c \in Users, x \in MonthlyFairnessInputs : handleFairnessSave(c, x)

\* Time passes, and a snapshot the store has for a client is delivered.
SpecMonthly ==
    /\ InitMonthly
    /\ [][NextMonthly]_vars
    /\ WF_vars(MonthTick)
    /\ \A c \in Users : WF_vars(UsersSnapshotMonthlySync(c))

\* ------------------------------------------------- the threshold saves
\* What is typed into a threshold field, as a sequence of characters.
ThresholdTexts ==
    {<<>>, <<"0">>, <<"-", "5">>, <<"1", "0", "0">>, <<"7", "x">>, <<"a">>}

DigitChars == <<"0", "1", "2", "3", "4", "5", "6", "7", "8", "9">>

IsDigit(ch) == \E i \in DOMAIN DigitChars : DigitChars[i] = ch

DigitValue(ch) == (CHOOSE i \in DOMAIN DigitChars : DigitChars[i] = ch) - 1

\* The number of leading digit characters of text.
RECURSIVE LeadingDigits(_)
LeadingDigits(text) ==
    IF text = <<>> THEN 0
    ELSE IF IsDigit(Head(text)) THEN 1 + LeadingDigits(Tail(text))
    ELSE 0

\* The value of a sequence of digit characters.
RECURSIVE DigitsValue(_)
DigitsValue(digits) ==
    IF digits = <<>> THEN 0
    ELSE 10 * DigitsValue(SubSeq(digits, 1, Len(digits) - 1))
           + DigitValue(digits[Len(digits)])

\* text without a leading minus sign.
Unsigned(text) ==
    IF text # <<>> /\ Head(text) = "-" THEN Tail(text) ELSE text

Signed(text, value) ==
    IF text # <<>> /\ Head(text) = "-" THEN 0 - value ELSE value

\* parseInt(text): the leading integer of text, Null for NaN.
parseInt(text) ==
    LET body == Unsigned(text)
        n == LeadingDigits(body)
    IN IF n = 0 THEN Null
       ELSE Some(Signed(text, DigitsValue(SubSeq(body, 1, n))))

\* Number(text) for the texts of the model: 0 for the empty text, the integer
\* the whole text spells, Null for NaN.
NumberOf(text) ==
    LET body == Unsigned(text)
    IN IF text = <<>> THEN Some(0)
       ELSE IF body # <<>> /\ LeadingDigits(body) = Len(body)
            THEN Some(Signed(text, DigitsValue(body)))
       ELSE Null

\* setFairnessInput(Number(e.target.value)).  NaN is kept as 0: the
\* `Number(fairnessInput) || 1000` of the save takes both the same way.
onFairnessChange(text) == OrZero(NumberOf(text))

\* SettingsModal.handleSave for the signed-in user: parseInt, the check, and
\* updateDoc, which throws (and is caught) when the document is missing.
handleSave(c, text) ==
    /\ Press
    /\ LET threshold == parseInt(text)
       IN /\ IsSet(threshold)
          /\ Val(threshold) >= 0
          /\ IsSet(users[c])
          /\ users' = [users EXCEPT ![c] =
                 MergeUser(users[c], [fairness_threshold |-> threshold])]
    /\ UNCHANGED <<now, chores, quest_history, completionWrites,
                   clientVars, idleVars>>

\* User creation and the two threshold saves, in any order.
NextSettings ==
    \/ \E c \in Users : EnsureUserGet(c)
    \/ \E c \in Users : EnsureUserSet(c)
    \/ \E c \in Users, text \in ThresholdTexts : handleSave(c, text)
    \/ \E c \in Users, text \in ThresholdTexts :
          handleFairnessSave(c, onFairnessChange(text))

SpecSettings == InitUsers /\ [][NextSettings]_vars

\* ------------------------------------------------- the create-quest form
\* What is typed into the interval field, as a sequence of characters.
IntervalTexts ==
    {<<>>, <<"0">>, <<"-", "5">>, <<"2">>, <<"3">>, <<"7", "x">>, <<"a">>}

\* The options of the frequency select.
FrequencyOptions == {"once", "daily", "weekly", "monthly"}

\* Math.max(1, Number(text) || 1)
IntervalOf(text) ==
    LET n == OrZero(NumberOf(text))
        v == IF n = 0 THEN 1 ELSE n
    IN IF v > 1 THEN v ELSE 1

\* The frequency select with the interval kept when once is chosen.
onFrequencyTypeChangeKeepingInterval(c, value) ==
    /\ newQuestForm' = [newQuestForm EXCEPT ![c].frequencyType = value]
    /\ UNCHANGED <<now, ops, storeVars, clientVars, pureVars, syncVars,
                   routeVars, ensureVars>>

\* onChange of the frequency select: choosing once puts the interval back to 1.
onFrequencyTypeChange(c, value) ==
    /\ newQuestForm' = [newQuestForm EXCEPT
           ![c] = [frequencyType |-> value,
                   frequencyInterval |-> IF value = "once" THEN 1
                                         ELSE newQuestForm[c].frequencyInterval]]
    /\ UNCHANGED <<now, ops, storeVars, clientVars, pureVars, syncVars,
                   routeVars, ensureVars>>

\* onChange of the interval field, which is disabled while the type is once.
onFrequencyIntervalChange(c, text) ==
    /\ newQuestForm[c].frequencyType # "once"
    /\ newQuestForm' = [newQuestForm EXCEPT
           ![c].frequencyInterval = IntervalOf(text)]
    /\ UNCHANGED <<now, ops, storeVars, clientVars, pureVars, syncVars,
                   routeVars, ensureVars>>

\* Save Quest: handleCreateQuest with what the form holds (a medium quest with
\* a title), and the finally block putting the form back to initialTaskForm.
handleCreateQuestFromForm(c) ==
    /\ FreeQuestIds # {}
    /\ LET id == CHOOSE q \in FreeQuestIds : TRUE
       IN chores' = [chores EXCEPT ![id] = Some(
              [EmptyQuest EXCEPT
                 !.difficulty = Some("medium"),
                 !.xp = difficultyPresets("medium"),
                 !.frequencyType = Some(newQuestForm[c].frequencyType),
                 !.frequencyInterval = Some(newQuestForm[c].frequencyInterval),
                 !.isActive = Some(TRUE),
                 !.nextDueAt = Some(now)])]
    /\ newQuestForm' = [newQuestForm EXCEPT ![c] = initialTaskForm]
    /\ UNCHANGED <<now, ops, users, quest_history, completionWrites, clientVars,
                   pureVars, syncVars, routeVars, ensureVars>>

InitForm ==
    /\ InitStoreIdle
    /\ evalQuest = EmptyQuest
    /\ evalNow = 0
    /\ evalDue = Null
    /\ InitCalcIdle
    /\ InitXpIdle
    /\ InitSyncIdle
    /\ InitFormIdle
    /\ InitFmtIdle
    /\ InitCoerceIdle
    /\ InitRouteIdle
    /\ InitEnsureIdle

NextForm ==
    \/ \E c \in Users, value \in FrequencyOptions : onFrequencyTypeChange(c, value)
    \/ \E c \in Users, text \in IntervalTexts : onFrequencyIntervalChange(c, text)
    \/ \E c \in Users : handleCreateQuestFromForm(c)

SpecForm == InitForm /\ [][NextForm]_vars

\* ------------------------------------------------------ the timer display
\* n.toString() for a non-negative integer n, as a sequence of characters.
RECURSIVE ToDigits(_)
ToDigits(n) ==
    IF n < 10 THEN <<DigitChars[n + 1]>>
    ELSE ToDigits(n \div 10) \o <<DigitChars[(n % 10) + 1]>>

\* text.padStart(targetLength, ch)
RECURSIVE padStart(_, _, _)
padStart(text, targetLength, ch) ==
    IF Len(text) >= targetLength THEN text
    ELSE padStart(<<ch>> \o text, targetLength, ch)

\* formatMs with the minutes counted over the whole duration.
formatMsTotalMinutes(ms) ==
    LET floored == (IF IsSet(ms) THEN Val(ms) ELSE 0) \div 1000
        totalSeconds == IF floored > 0 THEN floored ELSE 0
        hours == totalSeconds \div 3600
        minutes == totalSeconds \div 60
        seconds == totalSeconds % 60
    IN ToDigits(hours) \o <<":">> \o padStart(ToDigits(minutes), 2, "0")
         \o <<":">> \o padStart(ToDigits(seconds), 2, "0")

\* formatMs(ms), ms being Null for a missing argument (the default 0).
formatMs(ms) ==
    LET floored == (IF IsSet(ms) THEN Val(ms) ELSE 0) \div 1000
        totalSeconds == IF floored > 0 THEN floored ELSE 0
        hours == totalSeconds \div 3600
        minutes == (totalSeconds % 3600) \div 60
        seconds == totalSeconds % 60
    IN ToDigits(hours) \o <<":">> \o padStart(ToDigits(minutes), 2, "0")
         \o <<":">> \o padStart(ToDigits(seconds), 2, "0")

\* The durations formatMs is given: hours of one, two and three digits, the
\* ends of the minute and second ranges, whole and broken seconds, negative
\* durations, and no argument at all.
FmtHours == {0, 1, 10, 100}
FmtMinutes == {0, 1, 59}
FmtSeconds == {0, 9, 59}
FmtMillis == {0, 999}
FmtNegatives == {0 - 1500, 0 - 1000, 0 - 1}

FmtInputs ==
    {Null} \cup {Some(ms) : ms \in FmtNegatives}
      \cup {Some(h * 3600000 + m * 60000 + sec * 1000 + r) :
              h \in FmtHours, m \in FmtMinutes, sec \in FmtSeconds,
              r \in FmtMillis}

InitFormat ==
    /\ InitStoreIdle
    /\ evalQuest = EmptyQuest
    /\ evalNow = 0
    /\ evalDue = Null
    /\ InitCalcIdle
    /\ InitXpIdle
    /\ InitSyncIdle
    /\ InitFormIdle
    /\ fmtArg \in FmtInputs
    /\ fmtResult = Null
    /\ InitCoerceIdle
    /\ InitRouteIdle
    /\ InitEnsureIdle

\* What the timer-display model leaves alone.
notFmtVars == <<stillVars, evalVars, calcVars, xpVars, coerceVars>>

\* The focus timer renders formatMs(timerState.elapsedMs).
ApplyFormatMs ==
    /\ fmtResult' = Some(formatMs(fmtArg))
    /\ UNCHANGED <<notFmtVars, fmtArg>>

NextFormat == ApplyFormatMs

SpecFormat == InitFormat /\ [][NextFormat]_vars

\* ---------------------------------------------------------- date coercion
\* A JavaScript value is a record with its kind: null, undefined, a number
\* (value Null for NaN), a string (its characters), a Date object (its identity
\* ref and its time value, Null for Invalid Date) or a store timestamp
\* (an object whose toDate() returns the Date object it wraps).
DateObject(ref, time) == [kind |-> "date", ref |-> ref, time |-> time]

\* !value
Falsy(value) ==
    \/ value.kind \in {"null", "undefined"}
    \/ value.kind = "number" /\ (value.value = Null \/ value.value = Some(0))
    \/ value.kind = "string" /\ value.text = <<>>

\* Date.parse of a date-only ISO text YYYY-MM-DD (midnight, the model's zone
\* being UTC): the instant, Null for NaN.
ParseIsoDate(text) ==
    IF /\ Len(text) = 10
       /\ text[5] = "-" /\ text[8] = "-"
       /\ \A i \in {1, 2, 3, 4, 6, 7, 9, 10} : IsDigit(text[i])
    THEN LET y == DigitsValue(SubSeq(text, 1, 4))
             m == DigitsValue(SubSeq(text, 6, 7))
             d == DigitsValue(SubSeq(text, 9, 10))
         IN IF y >= EpochYear /\ m \in 1 .. 12 /\ d \in 1 .. DaysInMonth(y, m - 1)
            THEN Some(MakeDay(y, m - 1, d) * TicksPerDay)
            ELSE Null
    ELSE Null

\* new Date(value) for a number or a string: a fresh Date object.
NewDate(value) ==
    IF value.kind = "number" THEN DateObject("new", value.value)
    ELSE DateObject("new", ParseIsoDate(value.text))

\* coerceDate with null returned for null and undefined only (value == null).
coerceDateNullishOnly(value) ==
    IF value.kind \in {"null", "undefined"} THEN Null
    ELSE IF value.kind = "date" THEN Some(value)
    ELSE IF value.kind = "timestamp" THEN Some(value.wrapped)
    ELSE Some(NewDate(value))

\* coerceDate(value): Null for null, the Date object otherwise.
coerceDate(value) ==
    IF Falsy(value) THEN Null
    ELSE IF value.kind = "date" THEN Some(value)
    ELSE IF value.kind = "timestamp" THEN Some(value.wrapped)
    ELSE Some(NewDate(value))

\* The values coerceDate is given: what a stored timestamp field can hold.
CoerceTimes == {Null} \cup {Some(t) : t \in CalcFromDates}
CoerceRefs == {"d1", "d2"}
CoerceTexts ==
    {<<>>, <<"a", "b", "c">>,
     <<"2", "0", "2", "5", "-", "0", "1", "-", "1", "5">>,
     <<"2", "0", "2", "5", "-", "0", "2", "-", "0", "1">>,
     <<"2", "0", "2", "5", "-", "1", "3", "-", "0", "1">>}

CoerceInputs ==
    {[kind |-> "null"], [kind |-> "undefined"]}
      \cup {[kind |-> "number", value |-> t] : t \in CoerceTimes}
      \cup {[kind |-> "string", text |-> x] : x \in CoerceTexts}
      \cup {DateObject(r, t) : r \in CoerceRefs, t \in CoerceTimes}
      \cup {[kind |-> "timestamp", wrapped |-> DateObject(r, t)] :
              r \in CoerceRefs, t \in CoerceTimes}

InitCoerce ==
    /\ InitStoreIdle
    /\ evalQuest = EmptyQuest
    /\ evalNow = 0
    /\ evalDue = Null
    /\ InitCalcIdle
    /\ InitXpIdle
    /\ InitSyncIdle
    /\ InitFormIdle
    /\ InitFmtIdle
    /\ coerceArg \in CoerceInputs
    /\ coerceResult = Null
    /\ InitRouteIdle
    /\ InitEnsureIdle

\* What the date-coercion model leaves alone.
notCoerceVars == <<stillVars, evalVars, calcVars, xpVars, fmtVars>>

\* A call of coerceDate: what it returned is kept.
ApplyCoerceDate ==
    /\ coerceResult' = Some([returned |-> coerceDate(coerceArg)])
    /\ UNCHANGED <<notCoerceVars, coerceArg>>

NextCoerce == ApplyCoerceDate

SpecCoerce == InitCoerce /\ [][NextCoerce]_vars

\* ------------------------------------------------------------- the routes
\* A path is the sequence of its segments: <<>> is "/".  What a screen shows
\* is "loading" (a loading screen), "login" (the login prompt) or "chores"
\* (the protected chore/quest content).
Sections == {"dashboard", "focus", "history"}

\* The paths a user may enter in the address bar.
EnteredPaths ==
    {<<>>, <<"login">>, <<"nope">>} \cup {<<s>> : s \in Sections}
      \cup {<<"users", u, s>> : u \in Users, s \in Sections \cup {"settings"}}

Show(screen) == [navigate |-> Null, screen |-> Some(screen)]
Navigate(to) == [navigate |-> Some(to), screen |-> Null]

\* LoginPage: a loading screen while loading or signed in, the prompt if not.
LoginPage(loading, user) ==
    IF loading \/ IsSet(user) THEN Show("loading") ELSE Show("login")

\* PrivateRoute with the outlet rendered for a visitor who is not signed in.
PrivateRouteOpen(loading, user, outlet) ==
    IF loading THEN Show("loading") ELSE outlet

\* PrivateRoute around the element outlet.
PrivateRoute(loading, user, outlet) ==
    IF loading THEN Show("loading")
    ELSE IF ~IsSet(user) THEN Navigate(<<"login">>)
    ELSE outlet

RedirectToUserSection(loading, user, section) ==
    IF loading THEN Show("loading")
    ELSE IF ~IsSet(user) THEN Navigate(<<"login">>)
    ELSE Navigate(<<"users", Val(user),
                    IF section \in Sections THEN section ELSE "dashboard">>)

\* <Routes>: the element of the route that matches path.
Routes(path, loading, user) ==
    IF path = <<"login">> THEN LoginPage(loading, user)
    ELSE IF path = <<>>
         THEN PrivateRoute(loading, user,
                           RedirectToUserSection(loading, user, "dashboard"))
    ELSE IF Len(path) = 1 /\ path[1] \in Sections
         THEN PrivateRoute(loading, user,
                           RedirectToUserSection(loading, user, path[1]))
    ELSE IF Len(path) = 3 /\ path[1] = "users"
         THEN PrivateRoute(loading, user, Show("chores"))
    ELSE Navigate(<<>>)

\* The path the router rests at: <Navigate replace> elements are followed
\* until a route shows a screen.
RECURSIVE Settle(_, _, _)
Settle(path, loading, user) ==
    LET element == Routes(path, loading, user)
    IN IF IsSet(element.navigate)
       THEN Settle(Val(element.navigate), loading, user)
       ELSE path

\* What the routed App shows to client c.
RoutedScreen(c) == Val(Routes(location[c], authLoading[c], currentUser[c]).screen)

\* AppContent of App.js: no router, the same three cases.
AppContent(loading, user) ==
    IF loading THEN Show("loading")
    ELSE IF ~IsSet(user) THEN LoginPage(loading, user)
    ELSE Show("chores")

AppContentScreen(c) == Val(AppContent(authLoading[c], currentUser[c]).screen)

\* The clients have just loaded the app at "/": authentication has not
\* resolved yet.
InitRoute ==
    /\ InitStoreIdle
    /\ evalQuest = EmptyQuest
    /\ evalNow = 0
    /\ evalDue = Null
    /\ InitCalcIdle
    /\ InitXpIdle
    /\ InitSyncIdle
    /\ InitFormIdle
    /\ InitFmtIdle
    /\ InitCoerceIdle
    /\ InitEnsureIdle
    /\ authLoading = [c \in Users |-> TRUE]
    /\ currentUser = [c \in Users |-> Null]
    /\ location = [c \in Users |-> Settle(<<>>, TRUE, Null)]

\* What the routing model leaves alone.
notRouteVars == <<now, ops, storeVars, clientVars, syncVars, formVars, pureVars,
                  ensureVars>>

\* The callback of onAuthStateChanged: the provider takes the user (null when
\* nobody is signed in) and stops loading; the routes render again.
onAuthStateChanged(c, user) ==
    /\ authLoading[c] \/ currentUser[c] # user
    /\ authLoading' = [authLoading EXCEPT ![c] = FALSE]
    /\ currentUser' = [currentUser EXCEPT ![c] = user]
    /\ location' = [location EXCEPT ![c] = Settle(location[c], FALSE, user)]
    /\ UNCHANGED notRouteVars

\* The user enters a path in the address bar.
enterPath(c, path) ==
    /\ location' = [location EXCEPT
                      ![c] = Settle(path, authLoading[c], currentUser[c])]
    /\ UNCHANGED <<notRouteVars, authLoading, currentUser>>

NextRoute ==
    \/ \E c \in Users : \E user \in {Null, Some(c)} : onAuthStateChanged(c, user)
    \/ \E c \in Users, path \in EnteredPaths : enterPath(c, path)

SpecRoute == InitRoute /\ [][NextRoute]_vars

\* ---------------------------------------------------- completions alone
\* The quest of the completion model: created at StartNow, of any of the
\* four frequency types, with interval 1.
CompletionTypes == {"once", "daily", "weekly", "monthly"}

\* How far the clock of the completion model runs: a daily quest completed at
\* one of the first two instants falls due again within it.
CompletionHorizon == StartNow + TicksPerDay + 1

\* The quest of the completion model as user A has reserved it.
ReservedSeedQuest(frequencyType) ==
    [SeedQuest(frequencyType) EXCEPT
       !.reservedById = Some("A"), !.reservedByName = Some("A")]

\* Both users have pressed Complete on the due quest (the two presses made so
\* far), user B before user A reserved it: each client has received the quest
\* and the user documents, and has the completion modal open with the
\* signed-in user as the player.
InitCompletion ==
    /\ now = StartNow
    /\ \E f \in CompletionTypes :
          /\ chores = [q \in QuestIds |-> Some(ReservedSeedQuest(f))]
          /\ snapChores = [c \in Users |-> [q \in QuestIds |->
                             Some(normalizeQuestDoc(ReservedSeedQuest(f)))]]
    /\ users = [u \in Users |-> Some(InitialUserDoc)]
    /\ snapUsers = [c \in Users |-> [u \in Users |-> Some(InitialUserDoc)]]
    /\ quest_history = <<>>
    /\ completionWrites = [q \in QuestIds |-> 0]
    /\ ops = 2
    /\ dueQuests = [c \in Users |-> QuestIds]
    /\ completionModal = [c \in Users |-> Some(CHOOSE q \in QuestIds : TRUE)]
    /\ completionUserId = [c \in Users |-> Some(c)]
    /\ pc = [c \in Users |-> "idle"]
    /\ pending = [c \in Users |-> Null]
    /\ ensurePc = [c \in Users |-> "done"]
    /\ evalQuest = EmptyQuest
    /\ evalNow = 0
    /\ evalDue = Null
    /\ InitCalcIdle
    /\ InitXpIdle
    /\ InitSyncIdle
    /\ InitFormIdle
    /\ InitFmtIdle
    /\ InitCoerceIdle
    /\ InitRouteIdle
    /\ InitEnsureIdle

\* Time passes.
CompletionClock ==
    /\ now < CompletionHorizon
    /\ now' = now + 1
    /\ UNCHANGED <<ops, storeVars, clientVars, idleVars>>

NextCompletion ==
    \/ CompletionClock
    \/ \E c \in Users : UsersSnapshot(c)
    \/ \E c \in Users : ChoresSnapshot(c)
    \/ \E c \in Users : ConfirmNotDue(c)
    \/ \E c \in Users, ok \in BOOLEAN : ConfirmStart(c, ok)
    \/ \E c \in Users, ok \in BOOLEAN : ConfirmHistory(c, ok)
    \/ \E c \in Users, ok \in BOOLEAN : ConfirmQuest(c, ok)

SpecCompletion == InitCompletion /\ [][NextCompletion]_vars

\* ---------------------------------------- completions that all go through
\* As InitCompletion, with user B having chosen either user as the player.
InitCredit ==
    /\ now = StartNow
    /\ \E f \in CompletionTypes :
          /\ chores = [q \in QuestIds |-> Some(ReservedSeedQuest(f))]
          /\ snapChores = [c \in Users |-> [q \in QuestIds |->
                             Some(normalizeQuestDoc(ReservedSeedQuest(f)))]]
    /\ users = [u \in Users |-> Some(InitialUserDoc)]
    /\ snapUsers = [c \in Users |-> [u \in Users |-> Some(InitialUserDoc)]]
    /\ quest_history = <<>>
    /\ completionWrites = [q \in QuestIds |-> 0]
    /\ ops = 2
    /\ dueQuests = [c \in Users |-> QuestIds]
    /\ completionModal = [c \in Users |-> Some(CHOOSE q \in QuestIds : TRUE)]
    /\ \E player \in Users :
          completionUserId = [c \in Users |->
                                IF c = "B" THEN Some(player) ELSE Some(c)]
    /\ pc = [c \in Users |-> "idle"]
    /\ pending = [c \in Users |-> Null]
    /\ ensurePc = [c \in Users |-> "done"]
    /\ evalQuest = EmptyQuest
    /\ evalNow = 0
    /\ evalDue = Null
    /\ InitCalcIdle
    /\ InitXpIdle
    /\ InitSyncIdle
    /\ InitFormIdle
    /\ InitFmtIdle
    /\ InitCoerceIdle
    /\ InitRouteIdle
    /\ InitEnsureIdle

\* The completions of the clients with every store write succeeding.
NextCredit ==
    \/ CompletionClock
    \/ \E c \in Users : UsersSnapshot(c)
    \/ \E c \in Users : ChoresSnapshot(c)
    \/ \E c \in Users : ConfirmNotDue(c)
    \/ \E c \in Users : ConfirmStart(c, TRUE)
    \/ \E c \in Users : ConfirmHistory(c, TRUE)
    \/ \E c \in Users : ConfirmQuest(c, TRUE)

SpecCredit == InitCredit /\ [][NextCredit]_vars

\* ------------------------------- the three ensureUserDocument runs together
\* The document LoginPage and ChoreManager create: no monthly_start_month.
NewUserDoc == [InitialUserDoc EXCEPT !.monthly_start_month = Null]

\* What the runs of LoginPage and ChoreManager leave alone.
notEnsureVars == <<now, ops, clientVars, pureVars, syncVars, formVars,
                   routeVars>>

\* LoginPage, await getDoc(userRef): the existence the run goes on with.
LoginEnsureGet(c) ==
    /\ loginPc[c] = "getDoc"
    /\ loginPc' = [loginPc EXCEPT
                     ![c] = IF IsSet(users[c]) THEN "done" ELSE "setDoc"]
    /\ UNCHANGED <<storeVars, notEnsureVars, chorePc>>

\* LoginPage, await setDoc(userRef, {...}) without merge.
LoginEnsureSet(c) ==
    /\ loginPc[c] = "setDoc"
    /\ users' = [users EXCEPT ![c] = Some(NewUserDoc)]
    /\ loginPc' = [loginPc EXCEPT ![c] = "done"]
    /\ UNCHANGED <<chores, quest_history, completionWrites, notEnsureVars,
                   chorePc>>

\* ChoreManager, await getDoc(userRef); with the document there the run
\* writes at most display_name, with merge.
ChoreEnsureGet(c) ==
    /\ chorePc[c] = "getDoc"
    /\ chorePc' = [chorePc EXCEPT
                     ![c] = IF IsSet(users[c]) THEN "done" ELSE "setDoc"]
    /\ UNCHANGED <<storeVars, notEnsureVars, loginPc>>

\* ChoreManager, await setDoc(userRef, {...}) without merge.
ChoreEnsureSet(c) ==
    /\ chorePc[c] = "setDoc"
    /\ users' = [users EXCEPT ![c] = Some(NewUserDoc)]
    /\ chorePc' = [chorePc EXCEPT ![c] = "done"]
    /\ UNCHANGED <<chores, quest_history, completionWrites, notEnsureVars,
                   loginPc>>

\* User A has just signed in for the first time: no user document, the three
\* runs about to read. User B is at work already. A daily quest is due.
NewUser == "A"

InitEnsure ==
    /\ now = StartNow
    /\ chores = [q \in QuestIds |-> Some(SeedQuest("daily"))]
    /\ snapChores = [c \in Users |-> [q \in QuestIds |->
                       Some(normalizeQuestDoc(SeedQuest("daily")))]]
    /\ users = [u \in Users |-> IF u = NewUser THEN Null ELSE Some(InitialUserDoc)]
    /\ snapUsers = [c \in Users |-> users]
    /\ quest_history = <<>>
    /\ completionWrites = [q \in QuestIds |-> 0]
    /\ ops = 0
    /\ dueQuests = [c \in Users |-> QuestIds]
    /\ completionModal = [c \in Users |-> Null]
    /\ completionUserId = [c \in Users |-> Null]
    /\ pc = [c \in Users |-> "idle"]
    /\ pending = [c \in Users |-> Null]
    /\ ensurePc = [c \in Users |-> IF c = NewUser THEN "getDoc" ELSE "done"]
    /\ loginPc = [c \in Users |-> IF c = NewUser THEN "getDoc" ELSE "done"]
    /\ chorePc = [c \in Users |-> IF c = NewUser THEN "getDoc" ELSE "done"]
    /\ evalQuest = EmptyQuest
    /\ evalNow = 0
    /\ evalDue = Null
    /\ InitCalcIdle
    /\ InitXpIdle
    /\ InitSyncIdle
    /\ InitFormIdle
    /\ InitFmtIdle
    /\ InitCoerceIdle
    /\ InitRouteIdle

\* The runs of ensureUserDocument, the users subscription and completions.
NextEnsure ==
    \/ \E c \in Users : LoginEnsureGet(c)
    \/ \E c \in Users : LoginEnsureSet(c)
    \/ \E c \in Users : ChoreEnsureGet(c)
    \/ \E c \in Users : ChoreEnsureSet(c)
    \/ \E c \in Users : EnsureUserGet(c)
    \/ \E c \in Users : EnsureUserSet(c)
    \/ \E c \in Users : UsersSnapshot(c)
    \/ \E c \in Users, q \in QuestIds : openCompletion(c, q)
    \/ \E c \in Users : ConfirmStart(c, TRUE)
    \/ \E c \in Users : ConfirmHistory(c, TRUE)
    \/ \E c \in Users : ConfirmQuest(c, TRUE)

SpecEnsure == InitEnsure /\ [][NextEnsure]_vars

\* =============================================================== properties
HistoryOf(q) == {i \in 1 .. Len(quest_history) : quest_history[i].questId = q}

Quiescent == \A c \in Users : pc[c] = "idle"

\* C1: a quest whose stored reservedById is some user keeps that holder through
\* every toggleReservation (also the one handleFocusQuest makes) another user
\* runs: the other user's run neither takes the reservation nor clears it.
ReservationKeptFromOthers ==
    [][\A c \in Users, q \in QuestIds :
          (/\ toggleReservation(c, q) \/ handleFocusQuest(c, q)
           /\ reservedByOther(Val(chores[q]), c))
          => Val(chores'[q]).reservedById = Val(chores[q]).reservedById]_vars

\* C2: when handleConfirmCompletion of a client gets to its completion writes
\* (the XP credit first), the stored quest is not reserved by a user other
\* than the one signed in to that client.
OnlyHolderCompletes ==
    [][\A c \in Users :
          (pc[c] = "idle" /\ pc'[c] = "history")
          => ~reservedByOther(Val(chores[Val(completionModal[c])]), c)]_vars

\* C3: every stored user document holds star_coins exactly when it holds
\* total_xp, and star_coins is floor(total_xp / 10); a document holding
\* neither (one a settings save created) reads as 0 and 0.
StarCoinsFollowTotalXp ==
    \A u \in Users :
       IsSet(users[u]) =>
          /\ IsSet(Val(users[u]).star_coins) <=> IsSet(Val(users[u]).total_xp)
          /\ OrZero(Val(users[u]).star_coins)
                = OrZero(Val(users[u]).total_xp) \div 10

\* A completion has credited XP worth at least one star coin.
StarCoinsAwarded ==
    \E u \in Users :
       /\ IsSet(users[u])
       /\ OrZero(Val(users[u]).total_xp) >= 10
       /\ OrZero(Val(users[u]).star_coins) >= 1
       /\ quest_history # <<>>

\* C4: whenever no handleConfirmCompletion run is under way, each quest has as
\* many quest_history entries as completion updates applied to it.
HistoryMatchesCompletions ==
    Quiescent =>
       \A q \in QuestIds : Cardinality(HistoryOf(q)) = completionWrites[q]

\* C5: every step leaves the history entries there were in place and
\* unchanged; the history only grows at its end.
HistoryAppendOnly ==
    [][/\ Len(quest_history') >= Len(quest_history)
       /\ SubSeq(quest_history', 1, Len(quest_history)) = quest_history]_vars

\* A completion has been recorded and the quest has been reserved since.
ReservedAfterHistory ==
    /\ quest_history # <<>>
    /\ Quiescent
    /\ \E q \in QuestIds :
          /\ IsSet(chores[q])
          /\ completionWrites[q] >= 1
          /\ IsSet(Val(chores[q]).reservedById)

\* C6: a once quest whose completion update has been applied has isActive
\* false and is not due, at every instant and after every operation since.
OnceQuestStaysRetired ==
    \A q \in QuestIds :
       (/\ IsSet(chores[q])
        /\ Val(chores[q]).frequencyType = Some("once")
        /\ completionWrites[q] >= 1)
       => /\ Val(chores[q]).isActive = Some(FALSE)
          /\ ~isQuestDue(normalizeQuestDoc(Val(chores[q])), now)

\* A once quest was completed at an earlier instant.
OnceQuestRetiredEarlier ==
    \E q \in QuestIds :
       /\ IsSet(chores[q])
       /\ Val(chores[q]).frequencyType = Some("once")
       /\ completionWrites[q] >= 1
       /\ IsSet(Val(chores[q]).lastCompletedAt)
       /\ now > Val(Val(chores[q]).lastCompletedAt)
       /\ Quiescent

\* C7: isQuestDue answers false for every quest whose isActive is false,
\* whatever its nextDueAt, lastCompletedAt and frequencyType.
InactiveNeverDue ==
    IsSet(evalDue) =>
       (Val(evalDue).quest.isActive = Some(FALSE) => ~Val(evalDue).due)

\* An inactive quest whose nextDueAt has passed was evaluated.
InactivePastDueEvaluated ==
    /\ IsSet(evalDue)
    /\ Val(evalDue).quest.isActive = Some(FALSE)
    /\ IsSet(Val(evalDue).quest.nextDueAt)
    /\ Val(Val(evalDue).quest.nextDueAt) <= Val(evalDue).at

\* C8: for a quest that is not inactive and has nextDueAt, isQuestDue answers
\* true exactly when now >= nextDueAt.
DueIffNextDueReached ==
    IsSet(evalDue) =>
       ((/\ Val(evalDue).quest.isActive # Some(FALSE)
         /\ IsSet(Val(evalDue).quest.nextDueAt))
        => (Val(evalDue).due
              <=> Val(evalDue).at >= Val(Val(evalDue).quest.nextDueAt)))

\* A quest was evaluated at the very instant of its nextDueAt, with a
\* frequencyType and a lastCompletedAt that would answer otherwise.
DueAtEquality ==
    /\ IsSet(evalDue)
    /\ Val(evalDue).quest.isActive # Some(FALSE)
    /\ Val(evalDue).quest.nextDueAt = Some(Val(evalDue).at)
    /\ Val(evalDue).quest.frequencyType = Some("once")
    /\ IsSet(Val(evalDue).quest.lastCompletedAt)
    /\ Val(evalDue).due

\* C9: of two successive evaluations of the same quest document with
\* nextDueAt, the later one answers due when the earlier one did; and an
\* evaluation before nextDueAt answers not due.
DueMonotonicInTime ==
    [][(IsSet(evalDue') /\ IsSet(Val(evalDue').quest.nextDueAt))
       => /\ Val(evalDue').at < Val(Val(evalDue').quest.nextDueAt)
               => ~Val(evalDue').due
          /\ (/\ IsSet(evalDue)
              /\ Val(evalDue).quest = Val(evalDue').quest
              /\ Val(evalDue).due)
             => Val(evalDue').due]_vars

\* A quest still answers due on a day after the day of its nextDueAt.
DueOnLaterDay ==
    /\ IsSet(evalDue)
    /\ IsSet(Val(evalDue).quest.nextDueAt)
    /\ startOfDay(Val(evalDue).at)
          > startOfDay(Val(Val(evalDue).quest.nextDueAt))
    /\ Val(evalDue).due

\* C10: the client reports a stored active quest without nextDueAt, whose
\* frequencyType is once or which has neither frequencyType nor frequency,
\* due exactly when it has no lastCompletedAt.
LegacyDefaultsToOnce ==
    IsSet(evalDue) =>
       ((/\ Val(evalDue).client
         /\ Val(evalDue).quest.isActive # Some(FALSE)
         /\ ~IsSet(Val(evalDue).quest.nextDueAt)
         /\ \/ Val(evalDue).quest.frequencyType = Some("once")
            \/ /\ ~IsSet(Val(evalDue).quest.frequencyType)
               /\ ~IsSet(Val(evalDue).quest.frequency))
        => (Val(evalDue).due <=> ~IsSet(Val(evalDue).quest.lastCompletedAt)))

\* C11: for a quest that is not inactive, has no nextDueAt and has
\* frequencyType daily, isQuestDue answers true exactly when lastCompletedAt
\* is absent or the calendar day of now is after that of lastCompletedAt.
LegacyDailyRule ==
    IsSet(evalDue) =>
       ((/\ Val(evalDue).quest.isActive # Some(FALSE)
         /\ ~IsSet(Val(evalDue).quest.nextDueAt)
         /\ Val(evalDue).quest.frequencyType = Some("daily"))
        => (Val(evalDue).due
              <=> IF IsSet(Val(evalDue).quest.lastCompletedAt)
                  THEN DayOf(Val(evalDue).at)
                         > DayOf(Val(Val(evalDue).quest.lastCompletedAt))
                  ELSE TRUE))

\* A legacy daily quest was evaluated later on the day of its completion.
DailySameDayEvaluated ==
    /\ IsSet(evalDue)
    /\ Val(evalDue).quest.isActive # Some(FALSE)
    /\ ~IsSet(Val(evalDue).quest.nextDueAt)
    /\ Val(evalDue).quest.frequencyType = Some("daily")
    /\ IsSet(Val(evalDue).quest.lastCompletedAt)
    /\ Val(evalDue).at > Val(Val(evalDue).quest.lastCompletedAt)
    /\ DayOf(Val(evalDue).at) = DayOf(Val(Val(evalDue).quest.lastCompletedAt))
    /\ ~Val(evalDue).due

\* C12: a quest that is not inactive, has no nextDueAt and has a
\* frequencyType other than once, daily, weekly and monthly is due at every
\* instant, completed before or not.
UnrecognizedTypeDue ==
    IsSet(evalDue) =>
       ((/\ Val(evalDue).quest.isActive # Some(FALSE)
         /\ ~IsSet(Val(evalDue).quest.nextDueAt)
         /\ IsSet(Val(evalDue).quest.frequencyType)
         /\ Val(Val(evalDue).quest.frequencyType)
               \notin {"once", "daily", "weekly", "monthly"})
        => Val(evalDue).due)

\* A completed quest of an unrecognized type was evaluated at the instant of
\* its completion.
UnrecognizedCompletedEvaluated ==
    /\ IsSet(evalDue)
    /\ Val(evalDue).quest.isActive # Some(FALSE)
    /\ ~IsSet(Val(evalDue).quest.nextDueAt)
    /\ Val(evalDue).quest.frequencyType = Some("yearly")
    /\ Val(evalDue).quest.lastCompletedAt = Some(Val(evalDue).at)
    /\ Val(evalDue).due

\* The call the last report of the due-date model is about.
Called(fn, units) ==
    /\ IsSet(calcResult)
    /\ Val(calcResult).fn = fn
    /\ calcArgs.unit \in units

\* C13: calculateNextDueAt returns the instant of fromDate for once and for a
\* type it does not know, whatever the interval; getDueDateFromNow does for
\* once.
OnceReturnsFromDate ==
    (\/ Called("calculateNextDueAt", CalcUnits \ {"daily", "weekly", "monthly"})
     \/ Called("getDueDateFromNow", {"once"}))
    => Val(calcResult).value = calcArgs.fromDate

\* calculateNextDueAt was called with an unknown type and an interval above 1.
UnknownTypeCalled ==
    /\ Called("calculateNextDueAt", {"yearly"})
    /\ calcArgs.interval > 1
    /\ Val(calcResult).value = calcArgs.fromDate

\* C14: the next due date is n calendar days after fromDate, at the same time
\* of day, for the daily unit, and 7 * n days after it for the weekly unit,
\* in calculateNextDueAt (daily, weekly) and getDueDateFromNow (days, weeks).
DailyWeeklyAddDays ==
    /\ (Called("calculateNextDueAt", {"daily"})
           \/ Called("getDueDateFromNow", {"days"}))
        => /\ DayOf(Val(calcResult).value)
                = DayOf(calcArgs.fromDate) + calcArgs.interval
           /\ TickOfDay(Val(calcResult).value) = TickOfDay(calcArgs.fromDate)
    /\ (Called("calculateNextDueAt", {"weekly"})
           \/ Called("getDueDateFromNow", {"weeks"}))
        => /\ DayOf(Val(calcResult).value)
                = DayOf(calcArgs.fromDate) + 7 * calcArgs.interval
           /\ TickOfDay(Val(calcResult).value) = TickOfDay(calcArgs.fromDate)

\* getDueDateFromNow was called with weeks and an interval above 1, from an
\* instant that is not midnight.
WeeksCalled ==
    /\ Called("getDueDateFromNow", {"weeks"})
    /\ calcArgs.interval > 1
    /\ TickOfDay(calcArgs.fromDate) > 0
    /\ DayOf(Val(calcResult).value) = DayOf(calcArgs.fromDate) + 7 * calcArgs.interval

\* The calendar date a month step is to land on, when the day of the month
\* exists in the target month, and where the excess days roll to otherwise.
MonthStepDate(from, n) ==
    LET y == from.year + ((from.month + n) \div 12)
        m == (from.month + n) % 12
        last == DaysInMonth(y, m)
    IN IF from.date <= last
       THEN [year |-> y, month |-> m, date |-> from.date]
       ELSE [year |-> y + ((m + 1) \div 12), month |-> (m + 1) % 12,
             date |-> from.date - last]

\* C15: for the monthly unit (monthly in calculateNextDueAt, months in
\* getDueDateFromNow) the next due date is fromDate with the month advanced by
\* the interval: the same day of the month when the target month has it, the
\* excess days rolled into the month after it when not; the time of day kept.
MonthlyAdvancesMonth ==
    (Called("calculateNextDueAt", {"monthly"})
        \/ Called("getDueDateFromNow", {"months"}))
    => /\ DateOf(Val(calcResult).value)
            = MonthStepDate(DateOf(calcArgs.fromDate), calcArgs.interval)
       /\ TickOfDay(Val(calcResult).value) = TickOfDay(calcArgs.fromDate)

\* One month from 2025-01-31 was computed and is 2025-03-03.
JanuaryEndRollsToMarch ==
    /\ Called("calculateNextDueAt", {"monthly"})
    /\ calcArgs.interval = 1
    /\ DateOf(calcArgs.fromDate) = [year |-> EpochYear, month |-> 0, date |-> 31]
    /\ DateOf(Val(calcResult).value) = [year |-> EpochYear, month |-> 2, date |-> 3]

\* The gap and the threshold calculateXpWithFairness is to compare, for the
\* user record lowest.
XpGap(highest, lowest) == highest - OrZero(lowest.weekly_xp)

XpThreshold(lowest) ==
    IF IsSet(lowest.fairness_threshold)
    THEN Val(lowest.fairness_threshold) ELSE DefaultFairnessThreshold

\* C16: fairnessApplied is true exactly when weeklyStats.lowest and
\* targetUserId are present, lowest.id is targetUserId and the gap
\* highest - (lowest.weekly_xp or 0) is strictly above the threshold
\* (lowest.fairness_threshold when numeric, 1000 otherwise).
FairnessAppliedIff ==
    IsSet(xpResult) =>
       (Val(xpResult).fairnessApplied
          <=> IF IsSet(Val(xpStats).lowest) /\ IsSet(xpArgs.targetUserId)
              THEN /\ Val(Val(xpStats).lowest).id = Val(xpArgs.targetUserId)
                   /\ XpGap(Val(xpStats).highest, Val(Val(xpStats).lowest))
                        > XpThreshold(Val(Val(xpStats).lowest))
              ELSE FALSE)

\* The lowest earner completed at a gap equal to the threshold: no bonus.
GapAtThreshold ==
    /\ IsSet(xpResult)
    /\ IsSet(Val(xpStats).lowest)
    /\ xpArgs.targetUserId = Some(Val(Val(xpStats).lowest).id)
    /\ XpGap(Val(xpStats).highest, Val(Val(xpStats).lowest))
         = XpThreshold(Val(Val(xpStats).lowest))
    /\ ~Val(xpResult).fairnessApplied

\* C17: xpAward is baseXp when fairnessApplied is false and 1.5 * baseXp
\* rounded to the nearest integer, halves up, when it is true.
XpAwardRounded ==
    IsSet(xpResult) =>
       IF Val(xpResult).fairnessApplied
       THEN 2 * Val(xpResult).xpAward - 3 * xpArgs.baseXp \in {0, 1}
       ELSE Val(xpResult).xpAward = xpArgs.baseXp

\* The bonus was applied to a base XP of 3, giving 5.
OddBaseXpRoundedUp ==
    /\ IsSet(xpResult)
    /\ Val(xpResult).fairnessApplied
    /\ xpArgs.baseXp = 3
    /\ Val(xpResult).xpAward = 5

\* C18: over a non-empty users state weeklyStats has highest = the largest
\* weekly_xp (absent counted as 0) and lowest = the first user, in iteration
\* order, of the smallest weekly_xp; over an empty one, highest 0 and lowest
\* null.
WeeklyStatsFirstLowest ==
    IsSet(xpStats) =>
       LET list == xpArgs.users
           w(i) == OrZero(list[i].weekly_xp)
           idx == 1 .. Len(list)
       IN IF Len(list) = 0
          THEN Val(xpStats) = [highest |-> 0, lowest |-> Null]
          ELSE /\ \E i \in idx : Val(xpStats).highest = w(i)
               /\ \A i \in idx : Val(xpStats).highest >= w(i)
               /\ \E i \in idx :
                     /\ Val(xpStats).lowest = Some(list[i])
                     /\ \A j \in idx : w(j) >= w(i)
                     /\ \A j \in idx : j < i => w(j) > w(i)

\* Two users share the lowest weekly_xp and the first one was picked.
TiedLowestFirstPicked ==
    /\ IsSet(xpStats)
    /\ Len(xpArgs.users) >= 2
    /\ OrZero(xpArgs.users[1].weekly_xp) = OrZero(xpArgs.users[2].weekly_xp)
    /\ IsSet(Val(xpStats).lowest)
    /\ Val(Val(xpStats).lowest).id = 1

\* The stored baseline of user u is of another month than the current one.
BaselineStale(u) ==
    /\ IsSet(users[u])
    /\ Val(users[u]).monthly_start_month # Some(getMonthKey(now))

\* C19: whenever the stored monthly_start_month of a user differs from the
\* current month key, the month having changed while the clients stay open
\* included, the baseline is eventually written for the current month.
MonthlyBaselineReset ==
    \A u \in Users : BaselineStale(u) ~> ~BaselineStale(u)

\* C20: every stored fairness_threshold is an integer greater than 0.
FairnessThresholdPositive ==
    \A u \in Users :
       (IsSet(users[u]) /\ IsSet(Val(users[u]).fairness_threshold))
       => Val(Val(users[u]).fairness_threshold) > 0

\* C21: whatever edits the create-quest form went through, every quest
\* handleCreateQuest stored has frequencyInterval >= 1, and frequencyInterval 1
\* when its frequencyType is once.
StoredIntervalAtLeastOne ==
    \A q \in QuestIds :
       IsSet(chores[q]) =>
          /\ Val(Val(chores[q]).frequencyInterval) >= 1
          /\ Val(chores[q]).frequencyType = Some("once")
                => Val(chores[q]).frequencyInterval = Some(1)

\* A once quest was stored with interval 1, the form it came from is back to
\* its initial state, and a form holds an interval an edit has raised.
OnceQuestStoredFromForm ==
    \E q \in QuestIds, c \in Users :
       /\ IsSet(chores[q])
       /\ Val(chores[q]).frequencyType = Some("once")
       /\ Val(chores[q]).frequencyInterval = Some(1)
       /\ newQuestForm[c] = initialTaskForm
       /\ \E d \in Users : newQuestForm[d].frequencyInterval > 1

\* The fields of text between its colons, in order.
RECURSIVE Fields(_)
Fields(text) ==
    IF \A i \in DOMAIN text : text[i] # ":" THEN <<text>>
    ELSE LET k == CHOOSE i \in DOMAIN text :
                     text[i] = ":" /\ \A j \in 1 .. i - 1 : text[j] # ":"
         IN <<SubSeq(text, 1, k - 1)>> \o Fields(SubSeq(text, k + 1, Len(text)))

AllDigits(text) == \A i \in DOMAIN text : IsDigit(text[i])

\* C22: the text formatMs returns is H:MM:SS: hours without padding, minutes
\* and seconds of two digits within 0..59, and H * 3600 + MM * 60 + SS is
\* floor(ms / 1000) for ms >= 0; for a negative (or missing) ms it is 0:00:00.
FormatMsPattern ==
    IsSet(fmtResult) =>
       LET parts == Fields(Val(fmtResult))
           ms == IF IsSet(fmtArg) THEN Val(fmtArg) ELSE 0
       IN /\ Len(parts) = 3
          /\ \A i \in 1 .. 3 : parts[i] # <<>> /\ AllDigits(parts[i])
          /\ Len(parts[1]) > 1 => parts[1][1] # "0"
          /\ Len(parts[2]) = 2 /\ DigitsValue(parts[2]) <= 59
          /\ Len(parts[3]) = 2 /\ DigitsValue(parts[3]) <= 59
          /\ IF ms >= 0
             THEN DigitsValue(parts[1]) * 3600 + DigitsValue(parts[2]) * 60
                    + DigitsValue(parts[3]) = ms \div 1000
             ELSE Val(fmtResult) = <<"0", ":", "0", "0", ":", "0", "0">>

\* 100 hours, 59 minutes and 9.999 seconds were formatted as 100:59:09.
LongDurationFormatted ==
    /\ fmtArg = Some(100 * 3600000 + 59 * 60000 + 9999)
    /\ fmtResult = Some(<<"1", "0", "0", ":", "5", "9", ":", "0", "9">>)

\* C23 as stated: coerceDate returns null only for null and undefined: a Date
\* object is returned as it is, a timestamp gives the result of its toDate(),
\* and every other value, 0 and the empty string included, gives a Date object
\* (possibly Invalid Date), never null.
CoerceNullOnlyForNullish ==
    IsSet(coerceResult) =>
       LET returned == Val(coerceResult).returned
       IN IF coerceArg.kind \in {"null", "undefined"} THEN returned = Null
          ELSE IF coerceArg.kind = "date" THEN returned = Some(coerceArg)
          ELSE IF coerceArg.kind = "timestamp"
               THEN returned = Some(coerceArg.wrapped)
          ELSE /\ IsSet(returned)
               /\ Val(returned).kind = "date"

\* C23, amended: coerceDate returns null exactly for null, undefined, the
\* numbers 0 and NaN and the empty string; a Date object is returned as it is,
\* a timestamp gives the Date object its toDate() returns, a non-zero number
\* gives a new Date object of that time value and a non-empty string a new Date
\* object that is Invalid Date when the text does not parse.
CoerceNullForFalsy ==
    IsSet(coerceResult) =>
       LET returned == Val(coerceResult).returned
           k == coerceArg.kind
       IN /\ returned = Null
               <=> \/ k \in {"null", "undefined"}
                   \/ k = "number" /\ coerceArg.value \in {Null, Some(0)}
                   \/ k = "string" /\ Len(coerceArg.text) = 0
          /\ k = "date" => returned = Some(coerceArg)
          /\ k = "timestamp" => returned = Some(coerceArg.wrapped)
          /\ (k \in {"number", "string"} /\ IsSet(returned))
                => /\ Val(returned).kind = "date"
                   /\ Val(returned).ref \notin CoerceRefs
                   /\ k = "number" => Val(returned).time = coerceArg.value
                   /\ (k = "string" /\ \E i \in DOMAIN coerceArg.text :
                                           ~IsDigit(coerceArg.text[i])
                                           /\ coerceArg.text[i] # "-")
                        => Val(returned).time = Null

\* coerceDate was given the number 0 and returned null.
ZeroCoercedToNull ==
    /\ coerceArg = [kind |-> "number", value |-> Some(0)]
    /\ IsSet(coerceResult)
    /\ Val(coerceResult).returned = Null

\* C24: a client whose authentication has resolved with nobody signed in is
\* shown the login prompt, by AppContent and by the routed App, and not the
\* protected content; a client whose authentication is still loading is shown
\* a loading screen.
LoginPromptWhenSignedOut ==
    \A c \in Users :
       /\ authLoading[c]
            => AppContentScreen(c) = "loading" /\ RoutedScreen(c) = "loading"
       /\ (~authLoading[c] /\ ~IsSet(currentUser[c]))
            => AppContentScreen(c) = "login" /\ RoutedScreen(c) = "login"

\* One client has resolved with nobody signed in and is at /login, while the
\* other is signed in and sees its quests.
SignedOutAtLogin ==
    \E c, d \in Users :
       /\ ~authLoading[c] /\ ~IsSet(currentUser[c])
       /\ location[c] = <<"login">>
       /\ ~authLoading[d] /\ IsSet(currentUser[d])
       /\ RoutedScreen(d) = "chores"

\* Client c has the completion modal open, with a player chosen, on a quest
\* that is not due in its chores state.
ModalOnQuestNotDue(c) ==
    /\ pc[c] = "idle"
    /\ IsSet(completionModal[c]) /\ IsSet(completionUserId[c])
    /\ IsSet(snapChores[c][Val(completionModal[c])])
    /\ ~isQuestDue(Val(snapChores[c][Val(completionModal[c])]), now)

\* C25: when a client confirms the completion of a quest that is not due in
\* its chores state, the step writes nothing (no user document, no history
\* entry and no quest document changes) and starts no writes: it only closes
\* the completion modal.
NotDueConfirmWritesNothing ==
    [][\A c \in Users :
          (/\ ModalOnQuestNotDue(c)
           /\ pc'[c] # pc[c] \/ completionModal'[c] # completionModal[c])
          => /\ UNCHANGED <<chores, users, quest_history, completionWrites>>
             /\ pc'[c] = "idle"
             /\ completionModal'[c] = Null
             /\ UNCHANGED <<completionUserId, pending, snapChores, snapUsers>>]_vars

\* The modal of a client has been closed over a quest that another player's
\* completion retired or rescheduled: the player chosen in it is still there
\* and the quest is not due in the client's chores state.
ModalClosedOnNotDue ==
    \E c \in Users, q \in QuestIds :
       /\ pc[c] = "idle"
       /\ completionModal[c] = Null
       /\ IsSet(completionUserId[c])
       /\ IsSet(snapChores[c][q])
       /\ ~isQuestDue(Val(snapChores[c][q]), now)
       /\ completionWrites[q] = 1
       /\ Len(quest_history) = 1

\* The stored quest q is recurring and a completion update has been applied
\* to it.
RecurringCompleted(q) ==
    /\ IsSet(chores[q])
    /\ Val(Val(chores[q]).frequencyType) \in {"daily", "weekly", "monthly"}
    /\ completionWrites[q] >= 1

\* C26: the completion update of a recurring quest (daily, weekly or monthly,
\* interval >= 1) leaves the stored quest unreserved (reservedById and
\* reservedByName null) and not due, its nextDueAt strictly later than the
\* instant of the completion; and from then on the quest is due exactly when
\* now has reached that nextDueAt.
RecurringQuestRescheduled ==
    /\ [][\A q \in QuestIds :
            (completionWrites'[q] > completionWrites[q] /\ RecurringCompleted(q)')
            => LET quest == Val(chores'[q])
               IN /\ quest.reservedById = Null /\ quest.reservedByName = Null
                  /\ quest.lastCompletedAt = Some(now)
                  /\ IsSet(quest.nextDueAt) /\ Val(quest.nextDueAt) > now
                  /\ ~isQuestDue(normalizeQuestDoc(quest), now)]_vars
    /\ [](\A q \in QuestIds :
            RecurringCompleted(q) =>
               LET quest == Val(chores[q])
               IN /\ Val(quest.nextDueAt) > Val(quest.lastCompletedAt)
                  /\ isQuestDue(normalizeQuestDoc(quest), now)
                       <=> now >= Val(quest.nextDueAt))

\* A daily quest was completed and the clock has reached its next due date:
\* it is due again.
DailyQuestDueAgain ==
    \E q \in QuestIds :
       /\ RecurringCompleted(q)
       /\ Val(chores[q]).frequencyType = Some("daily")
       /\ now >= Val(Val(chores[q]).nextDueAt)
       /\ now > Val(Val(chores[q]).lastCompletedAt)
       /\ isQuestDue(normalizeQuestDoc(Val(chores[q])), now)

\* The sum of xpAwarded over the first n history entries of user u.
RECURSIVE AwardedXp(_, _)
AwardedXp(u, n) ==
    IF n = 0 THEN 0
    ELSE AwardedXp(u, n - 1)
           + IF quest_history[n].completedById = u
             THEN quest_history[n].xpAwarded ELSE 0

\* C27: with no store write failing and no completion under way, the
\* total_xp of every user (0 at the start) is the sum of xpAwarded over the
\* history entries whose completedById is that user.
XpConserved ==
    Quiescent =>
       \A u \in Users :
          OrZero(Val(users[u]).total_xp) = AwardedXp(u, Len(quest_history))

\* The number of completion updates applied to the quests in S.
RECURSIVE CompletionCount(_)
CompletionCount(S) ==
    IF S = {} THEN 0
    ELSE LET q == CHOOSE x \in S : TRUE
         IN completionWrites[q] + CompletionCount(S \ {q})

\* C28: a completion is all-or-nothing, also when a write fails: whenever no
\* run is under way, the store shows each completion whole or not at all, so
\* every user's total_xp is the sum of xpAwarded over that user's history
\* entries and there are as many history entries as completion updates.
CompletionAllOrNothing ==
    Quiescent =>
       /\ \A u \in Users :
             OrZero(Val(users[u]).total_xp) = AwardedXp(u, Len(quest_history))
       /\ Len(quest_history) = CompletionCount(QuestIds)

\* The runs that have credited a completion of quest q and have not yet
\* applied its completion update (the advance of nextDueAt or the retirement).
CreditedRuns(q) ==
    {c \in Users : IF IsSet(pending[c]) THEN Val(pending[c]).questId = q
                                        ELSE FALSE}

\* C29: one due period yields at most one XP award: since the last advance
\* of a quest's nextDueAt (or since its creation) at most one completion of
\* the quest has been credited, also when two clients confirm from chores
\* states received before either client's writes.
OneAwardPerDuePeriod ==
    \A q \in QuestIds : Cardinality(CreditedRuns(q)) <= 1

\* C30: ensureUserDocument never resets progress: once a user's total_xp is
\* positive no step sets it back to 0, under any interleaving of the runs of
\* LoginPage, ChoreManager and QuestManager and of XP updates.
ProgressNeverReset ==
    [][\A u \in Users :
          (IF IsSet(users[u]) THEN OrZero(Val(users[u]).total_xp) > 0
                              ELSE FALSE)
          => (IF IsSet(users'[u]) THEN OrZero(Val(users'[u]).total_xp) > 0
                                  ELSE FALSE)]_vars

====
